---- MODULE Spec2Model ----
(***************************************************************************)
(* Model of the provisioning engine of startout/starterfile.py:            *)
(*   - create_dependency_layers (the dependency layering algorithm), and   *)
(*   - Starter.up / install_tools / install_modules (the layer-by-layer    *)
(*     installation walk with rollback).                                   *)
(*                                                                         *)
(* A unit (Tool or Module) is identified by its name; names are unique     *)
(* inside a collection because the collections are built from the keys of  *)
(* a YAML mapping.  The dependencies attribute of a unit is either None or *)
(* a list of names; the code uses the list only through membership tests   *)
(* and set(), so the list is modelled by its set of names together with a  *)
(* flag that tells None from a list.                                       *)
(***************************************************************************)
EXTENDS Integers, Sequences, FiniteSets, TLC

\* ------------------------------------------------------------------ bounds
NumItems == 3      \* units given to one create_dependency_layers call
MaxDeps == 2       \* longest dependency list of a unit
NumTools == 2      \* tools of a Starter on which install_tools is called
NumModules == 3    \* modules of a Starter on which install_modules is called
UpTools == 1       \* tools of a Starter driven through up()
UpModules == 2     \* modules of a Starter driven through up()

AllNames == <<"a", "b", "c", "d", "e">>
MissingNames == {"z"}   \* names that no unit of a collection carries

\* The input list of n units, in the order of the list.
ItemList(n) == [i \in 1..n |-> AllNames[i]]

Range(s) == {s[i] : i \in 1..Len(s)}

\* item.dependencies: None, or a list of names.
NoneDeps == [none |-> TRUE, names |-> {}]
ListDeps(S) == [none |-> FALSE, names |-> S]
DepChoices(universe) ==
    {NoneDeps} \cup {ListDeps(S) : S \in {T \in SUBSET universe : Cardinality(T) <= MaxDeps}}

\* ------------------------------------------- create_dependency_layers
RECURSIVE Flatten(_)
\* itertools.chain.from_iterable(dependency_layers)
Flatten(layers) ==
    IF layers = <<>> THEN <<>> ELSE Head(layers) \o Flatten(Tail(layers))

\* [item.name for item in items if item.dependencies is None]
FirstLayer(its, deps) ==
    LET IsNone(n) == deps[n].none IN SelectSeq(its, IsNone)

\* all_items_depended_upon - set(item names)
UnmetDependencies_nosub(its, deps) ==
    UNION {deps[n].names : n \in {m \in Range(its) : ~deps[m].none}}
UnmetDependencies(its, deps) ==
    UNION {deps[n].names : n \in {m \in Range(its) : ~deps[m].none}} \ Range(its)

\* set([item for item in items if item.name not in dependency_layers[0]])
DependentItems(its, layers) ==
    {n \in Range(its) : n \notin Range(layers[1])}

\* the items of one pass whose dependencies are all scheduled
AddedItems_any(layers, dependent, deps) ==
    LET scheduled_items == Range(Flatten(layers))
    IN {n \in dependent : deps[n].names = {} \/ deps[n].names \cap scheduled_items # {}}
AddedItems_selfok(layers, dependent, deps) ==
    LET scheduled_items == Range(Flatten(layers))
    IN {n \in dependent : (deps[n].names \ {n}) \subseteq scheduled_items}
AddedItems(layers, dependent, deps) ==
    LET scheduled_items == Range(Flatten(layers))
    IN {n \in dependent : deps[n].names \subseteq scheduled_items}

\* The orders in which iterating a Python set of objects can yield its
\* elements (the order follows the objects' hashes, i.e. their addresses).
Orderings(S) ==
    {s \in [1..Cardinality(S) -> S] : \A i, j \in 1..Cardinality(S) : i # j => s[i] # s[j]}

RECURSIVE LayeringsFrom(_, _, _)
\* The layerings the while loop can return from a loop state; empty when the
\* loop ends in exit(1).
LayeringsFrom(layers, dependent, deps) ==
    IF dependent = {} THEN {layers}
    ELSE LET added == AddedItems(layers, dependent, deps)
         IN IF added = {} THEN {}
            ELSE UNION {LayeringsFrom(Append(layers, o), dependent \ added, deps) :
                            o \in Orderings(added)}

\* The layerings create_dependency_layers(items) can return; empty when the
\* call ends in exit(1).
CreateDependencyLayers(its, deps) ==
    LET layers == <<FirstLayer(its, deps)>>
    IN IF UnmetDependencies(its, deps) # {} THEN {}
       ELSE LayeringsFrom(layers, DependentItems(its, layers), deps)


\* ------------------------------------------------------------------ state
VARIABLES
    \* one call create_dependency_layers(items)
    items,               \* the input list (names, in list order)
    dependencies,        \* item name -> its dependencies attribute
    dependency_layers,   \* the local list of layers
    dependent_items,     \* the local set of units not placed yet
    lpc,                 \* position in create_dependency_layers
    reported,            \* the names printed by the error message
    \* a Starter and one call of up / install_tools / install_modules
    tools, modules,                          \* self.tools, self.modules (names)
    tool_deps, module_deps,                  \* name -> dependencies attribute
    tool_dependencies, module_dependencies,  \* the layers given to Starter
    teardown_on_failure, fail_early,         \* the arguments of the call
    entry,                                   \* the method called on the Starter
    pc,                                      \* position in that call
    layer, pos, early_exit,                  \* loop state of the walk
    failed_tools, successful_tools, destroyed_tools,
    failed_modules, successful_modules, destroyed_modules,
    tools_installed, modules_installed,      \* values returned by the two calls
    up_result,                               \* value returned by up()
    calls,               \* history: every check/initialize/destroy call made
    exit_status,         \* -1 while the process runs, else the exit status
    \* one script table and one operation on it (util.py, tool.py, module.py)
    scripts_dict,        \* the script table of a unit
    unit_kind,           \* "module" or "tool": whose table it is
    _os,                 \* platform.system().lower() of the host
    script_op,           \* the operation applied to the table
    script,              \* its role argument (the script asked for)
    outcome,             \* what the operation returned or raised
    spc,                 \* position: before or after the operation
    \* the environment and its users (util.py, env_manager.py, paths.py)
    environ,             \* os.environ: the variables that are set, with values
    string,              \* the argument of replace_env
    replaced,            \* the string replace_env returns
    initial_vars,        \* EnvironmentVariableManager.initial_vars
    final_vars,          \* EnvironmentVariableManager.final_vars
    captured,            \* (nonsensitive, sensitive) from get_captured_vars
    answers,             \* what the user answered for each sensitive variable
    env_dump_mode,       \* starter.env_dump_mode
    dump_file,           \* the lines of the env_dump target
    epc,                 \* position in the environment operations
    \* one child process and the function that runs it (util.py, module.py)
    proc_op,             \* the function that is running
    host,                \* what the host offers: executables found, platform
    events,              \* history: processes started, signals, waits, stages
    child,               \* state of the child process of monitored_subprocess
    proc_result,         \* what the function returned or raised
    ppc,                 \* position in the function
    \* is_potentially_sensitive_key_value
    env_key,             \* the name of the variable
    env_value,           \* its value
    sensitive,           \* what the function returned
    kpc,                 \* position in the function
    \* init options: Starter.set_init_options and prompt_init_option
    opt_op,              \* the function that is running
    init_options,        \* module name -> None or (option name -> option.value)
    options,             \* the dictionary given to set_init_options, in order
    os_environ,          \* os.environ: name -> string
    option_default,      \* option.default of the option that is prompted for
    stream,              \* what the user will type, response after response
    consumed,            \* how many responses console.input has handed out
    potential_response,  \* the response under examination
    response,            \* the converted response, None until there is one
    opc                  \* position in the function

layer_vars == <<items, dependencies, dependency_layers, dependent_items, lpc, reported>>
config_vars == <<tools, modules, tool_deps, module_deps, tool_dependencies,
                 module_dependencies, teardown_on_failure, fail_early, entry>>
tool_locals == <<failed_tools, successful_tools, destroyed_tools>>
module_locals == <<failed_modules, successful_modules, destroyed_modules>>
starter_vars == <<config_vars, pc, layer, pos, early_exit, tool_locals, module_locals,
                  tools_installed, modules_installed, up_result, calls>>
script_vars == <<scripts_dict, unit_kind, _os, script_op, script, outcome, spc>>
env_vars == <<environ, string, replaced, initial_vars, final_vars, captured, answers,
              env_dump_mode, dump_file, epc>>
proc_vars == <<proc_op, host, events, child, proc_result, ppc>>
sens_vars == <<env_key, env_value, sensitive, kpc>>
option_vars == <<opt_op, init_options, options, os_environ, option_default, stream,
                 consumed, potential_response, response, opc>>
util_vars == <<env_vars, proc_vars, sens_vars, option_vars>>
vars == <<layer_vars, starter_vars, exit_status, script_vars, util_vars>>

\* What a call of check / initialize / destroy on a unit can do: return True,
\* return False, or raise (ValueError from get_script or replace_env, OSError
\* from GitModule.initialize).
Outcomes == {"True", "False", "raise"}

Call(kind, op, unit, result) == [kind |-> kind, op |-> op, unit |-> unit, result |-> result]

\* ------------------------------------------- create_dependency_layers, stepwise
LayerIdle ==
    /\ items = <<>> /\ dependencies = <<>> /\ dependency_layers = <<>>
    /\ dependent_items = {} /\ lpc = "idle" /\ reported = {}

StarterIdle ==
    /\ tools = <<>> /\ modules = <<>> /\ tool_deps = <<>> /\ module_deps = <<>>
    /\ tool_dependencies = <<>> /\ module_dependencies = <<>>
    /\ teardown_on_failure = TRUE /\ fail_early = TRUE /\ entry = "none"
    /\ pc = "idle" /\ layer = 1 /\ pos = 1 /\ early_exit = FALSE
    /\ failed_tools = <<>> /\ successful_tools = <<>> /\ destroyed_tools = <<>>
    /\ failed_modules = <<>> /\ successful_modules = <<>> /\ destroyed_modules = <<>>
    /\ tools_installed = "unset" /\ modules_installed = "unset" /\ up_result = "unset"
    /\ calls = <<>>

ScriptIdle ==
    /\ scripts_dict = <<>> /\ unit_kind = "none" /\ _os = "none"
    /\ script_op = "none" /\ script = "none" /\ outcome = <<>> /\ spc = "idle"

EnvIdle ==
    /\ environ = <<>> /\ string = <<>> /\ replaced = <<>>
    /\ initial_vars = <<>> /\ final_vars = <<>> /\ captured = <<>> /\ answers = <<>>
    /\ env_dump_mode = "none" /\ dump_file = <<>> /\ epc = "idle"

ProcIdle ==
    /\ proc_op = "none" /\ host = <<>> /\ events = <<>> /\ child = "none"
    /\ proc_result = <<>> /\ ppc = "idle"

SensIdle ==
    /\ env_key = <<>> /\ env_value = <<>> /\ sensitive = "none" /\ kpc = "idle"

OptionsIdle ==
    /\ opt_op = "none" /\ init_options = <<>> /\ options = <<>> /\ os_environ = <<>>
    /\ option_default = <<>> /\ stream = <<>> /\ consumed = 0
    /\ potential_response = <<>> /\ response = <<>> /\ opc = "idle"

InitLayers ==
    /\ \E n \in 0..NumItems :
        /\ items = ItemList(n)
        /\ dependencies \in [Range(items) -> DepChoices(Range(items) \cup MissingNames)]
    /\ dependency_layers = <<>>
    /\ dependent_items = {}
    /\ lpc = "start"
    /\ reported = {}
    /\ exit_status = -1
    /\ StarterIdle
    /\ ScriptIdle
    /\ EnvIdle
    /\ ProcIdle
    /\ SensIdle
    /\ OptionsIdle

\* line 814: the first layer
BuildFirstLayer ==
    /\ lpc = "start"
    /\ dependency_layers' = <<FirstLayer(items, dependencies)>>
    /\ lpc' = "check_unmet"
    /\ UNCHANGED <<items, dependencies, dependent_items, reported, exit_status, starter_vars, script_vars, util_vars>>

\* lines 816-833: unmet dependencies end the process, else the loop is set up
CheckUnmet ==
    /\ lpc = "check_unmet"
    /\ LET unmet_dependencies == UnmetDependencies(items, dependencies)
       IN IF unmet_dependencies # {}
          THEN /\ reported' = unmet_dependencies
               /\ exit_status' = 1
               /\ lpc' = "exit"
               /\ UNCHANGED dependent_items
          ELSE /\ dependent_items' = DependentItems(items, dependency_layers)
               /\ lpc' = "loop"
               /\ UNCHANGED <<reported, exit_status>>
    /\ UNCHANGED <<items, dependencies, dependency_layers, starter_vars, script_vars, util_vars>>

\* lines 836-852: one pass of the while loop
LayerPass ==
    /\ lpc = "loop"
    /\ dependent_items # {}
    /\ LET added_items == AddedItems(dependency_layers, dependent_items, dependencies)
       IN IF added_items = {}
          THEN /\ reported' = dependent_items
               /\ exit_status' = 1
               /\ lpc' = "exit"
               /\ UNCHANGED <<dependency_layers, dependent_items>>
          ELSE /\ \E o \in Orderings(added_items) :
                    dependency_layers' = Append(dependency_layers, o)
               /\ dependent_items' = dependent_items \ added_items
               /\ UNCHANGED <<reported, exit_status, lpc>>
    /\ UNCHANGED <<items, dependencies, starter_vars, script_vars, util_vars>>

\* line 854
ReturnLayers ==
    /\ lpc = "loop"
    /\ dependent_items = {}
    /\ lpc' = "returned"
    /\ UNCHANGED <<items, dependencies, dependency_layers, dependent_items, reported,
                   exit_status, starter_vars, script_vars, util_vars>>

NextLayers == BuildFirstLayer \/ CheckUnmet \/ LayerPass \/ ReturnLayers

SpecLayers == InitLayers /\ [][NextLayers]_vars


\* ------------------------------------------------------------- Starter
\* (unit for unit in self.units if unit.name in layer): the units of the
\* collection whose name is in the layer, in the order of the collection.
LayerUnits_all(units, layer_names) == units
LayerUnits(units, layer_names) ==
    LET InLayer(n) == n \in Range(layer_names) IN SelectSeq(units, InLayer)

\* [unit for unit in self.units if unit.name in successful_units]
RollbackList_all(units, successful) == units
RollbackList_reversed(units, successful) ==
    [i \in 1..Len(successful) |-> successful[Len(successful) + 1 - i]]
RollbackList(units, successful) ==
    LET Installed(n) == n \in Range(successful) IN SelectSeq(units, Installed)

\* if tool.check(): ... continue
SkipInstalled_never(c) == FALSE
SkipInstalled(c) == c = "True"

\* if fail_early: early_exit = True
EarlyExitOnFailure_never(flag, fe) == flag
EarlyExitOnFailure(flag, fe) == flag \/ fe

\* if not unit.destroy(): ... sys.exit(1)
DestroyFatal_never(d) == FALSE
DestroyFatal(d) == d = "False"

\* if len(self.tools) == 0: ... return False
NoUnits_never(units) == FALSE
NoUnits(units) == Len(units) = 0

\* if len(failed_tools) > 0:
AnyFailed_never(failed) == FALSE
AnyFailed_always(failed) == TRUE
AnyFailed(failed) == Len(failed) > 0

\* if teardown_on_failure:
TeardownWanted_always(flag) == TRUE
TeardownWanted(flag) == flag

\* A Starter as parse_starterfile builds it (layers computed by
\* create_dependency_layers), and one call on it with its two arguments.
Init ==
    /\ entry \in {"up", "install_tools", "install_modules"}
    /\ \E nt \in 0..(IF entry = "up" THEN UpTools ELSE IF entry = "install_tools" THEN NumTools ELSE 0),
          nm \in 0..(IF entry = "up" THEN UpModules ELSE IF entry = "install_modules" THEN NumModules ELSE 0) :
        /\ tools = ItemList(nt)
        /\ modules = ItemList(nm)
    /\ tool_deps \in [Range(tools) -> DepChoices(Range(tools))]
    /\ module_deps \in [Range(modules) -> DepChoices(Range(modules))]
    /\ tool_dependencies \in CreateDependencyLayers(tools, tool_deps)
    /\ module_dependencies \in CreateDependencyLayers(modules, module_deps)
    /\ teardown_on_failure \in BOOLEAN
    /\ fail_early \in BOOLEAN
    /\ pc = "start" /\ layer = 1 /\ pos = 1 /\ early_exit = FALSE
    /\ failed_tools = <<>> /\ successful_tools = <<>> /\ destroyed_tools = <<>>
    /\ failed_modules = <<>> /\ successful_modules = <<>> /\ destroyed_modules = <<>>
    /\ tools_installed = "unset" /\ modules_installed = "unset" /\ up_result = "unset"
    /\ calls = <<>>
    /\ exit_status = -1
    /\ LayerIdle
    /\ ScriptIdle
    /\ EnvIdle
    /\ ProcIdle
    /\ SensIdle
    /\ OptionsIdle

\* lines 630, 652-660: install_tools is entered (directly, or first in up())
InstallToolsCall ==
    /\ pc = "start"
    /\ entry \in {"up", "install_tools"}
    /\ IF NoUnits(tools)
       THEN /\ tools_installed' = "False"
            /\ pc' = "tools_returned"
            /\ UNCHANGED <<layer, pos, early_exit, tool_locals>>
       ELSE /\ failed_tools' = <<>>
            /\ successful_tools' = <<>>
            /\ layer' = 1 /\ pos' = 1 /\ early_exit' = FALSE
            /\ pc' = IF Len(tool_dependencies) = 0 THEN "tools_report" ELSE "tools_walk"
            /\ UNCHANGED <<destroyed_tools, tools_installed>>
    /\ UNCHANGED <<config_vars, module_locals, modules_installed, up_result, calls,
                   exit_status, layer_vars, script_vars, util_vars>>

\* lines 665-677: one iteration of the inner loop of install_tools
ToolStep ==
    /\ pc = "tools_walk"
    /\ LET todo == LayerUnits(tools, tool_dependencies[layer])
           tool == todo[pos]
       IN /\ pos <= Len(todo)
          /\ \E c \in Outcomes :
                IF c = "raise"
                THEN /\ calls' = Append(calls, Call("tool", "check", tool, c))
                     /\ pc' = "raised"
                     /\ UNCHANGED <<pos, early_exit, failed_tools, successful_tools>>
                ELSE IF SkipInstalled(c)
                THEN /\ calls' = Append(calls, Call("tool", "check", tool, c))
                     /\ pos' = pos + 1
                     /\ UNCHANGED <<pc, early_exit, failed_tools, successful_tools>>
                ELSE \E r \in Outcomes :
                     /\ calls' = calls \o <<Call("tool", "check", tool, c),
                                            Call("tool", "initialize", tool, r)>>
                     /\ IF r = "raise"
                        THEN /\ pc' = "raised"
                             /\ UNCHANGED <<pos, early_exit, failed_tools, successful_tools>>
                        ELSE IF r = "False"
                        THEN /\ failed_tools' = Append(failed_tools, tool)
                             /\ early_exit' = EarlyExitOnFailure(early_exit, fail_early)
                             /\ pos' = pos + 1
                             /\ UNCHANGED <<pc, successful_tools>>
                        ELSE /\ successful_tools' = Append(successful_tools, tool)
                             /\ pos' = pos + 1
                             /\ UNCHANGED <<pc, early_exit, failed_tools>>
    /\ UNCHANGED <<config_vars, layer, destroyed_tools, module_locals, tools_installed,
                   modules_installed, up_result, exit_status, layer_vars, script_vars, util_vars>>

\* lines 661-663, 679-680: a layer is finished
ToolLayerEnd ==
    /\ pc = "tools_walk"
    /\ pos > Len(LayerUnits(tools, tool_dependencies[layer]))
    /\ IF early_exit \/ layer = Len(tool_dependencies)
       THEN /\ pc' = "tools_report"
            /\ UNCHANGED <<layer, pos, early_exit>>
       ELSE /\ layer' = layer + 1
            /\ pos' = 1
            /\ early_exit' = FALSE
            /\ UNCHANGED pc
    /\ UNCHANGED <<config_vars, tool_locals, module_locals, tools_installed,
                   modules_installed, up_result, calls, exit_status, layer_vars, script_vars, util_vars>>

\* lines 683-690, 701-704: the walk is over
ToolsReport ==
    /\ pc = "tools_report"
    /\ IF AnyFailed(failed_tools)
       THEN IF TeardownWanted(teardown_on_failure)
            THEN /\ destroyed_tools' = <<>>
                 /\ pos' = 1
                 /\ pc' = "tools_rollback"
                 /\ UNCHANGED tools_installed
            ELSE /\ tools_installed' = "False"
                 /\ pc' = "tools_returned"
                 /\ UNCHANGED <<destroyed_tools, pos>>
       ELSE /\ tools_installed' = "True"
            /\ pc' = "tools_returned"
            /\ UNCHANGED <<destroyed_tools, pos>>
    /\ UNCHANGED <<config_vars, layer, early_exit, failed_tools, successful_tools,
                   module_locals, modules_installed, up_result, calls, exit_status,
                   layer_vars, script_vars, util_vars>>

\* lines 691-698: one iteration of the rollback loop of install_tools
ToolRollbackStep ==
    /\ pc = "tools_rollback"
    /\ LET todo == RollbackList(tools, successful_tools)
           tool == todo[pos]
       IN /\ pos <= Len(todo)
          /\ \E d \in Outcomes :
                /\ calls' = Append(calls, Call("tool", "destroy", tool, d))
                /\ IF d = "raise"
                   THEN /\ pc' = "raised"
                        /\ UNCHANGED <<pos, destroyed_tools, exit_status>>
                   ELSE IF DestroyFatal(d)
                   THEN /\ pc' = "exit"
                        /\ exit_status' = 1
                        /\ UNCHANGED <<pos, destroyed_tools>>
                   ELSE /\ destroyed_tools' = Append(destroyed_tools, tool)
                        /\ pos' = pos + 1
                        /\ UNCHANGED <<pc, exit_status>>
    /\ UNCHANGED <<config_vars, layer, early_exit, failed_tools, successful_tools,
                   module_locals, tools_installed, modules_installed, up_result,
                   layer_vars, script_vars, util_vars>>

\* line 701 after the rollback loop
ToolRollbackEnd ==
    /\ pc = "tools_rollback"
    /\ pos > Len(RollbackList(tools, successful_tools))
    /\ tools_installed' = "False"
    /\ pc' = "tools_returned"
    /\ UNCHANGED <<config_vars, layer, pos, early_exit, tool_locals, module_locals,
                   modules_installed, up_result, calls, exit_status, layer_vars, script_vars, util_vars>>


\* lines 631, 718-726: install_modules is entered (directly, or in up() once
\* install_tools has returned)
InstallModulesCall ==
    /\ \/ entry = "install_modules" /\ pc = "start"
       \/ entry = "up" /\ pc = "tools_returned"
    /\ IF NoUnits(modules)
       THEN /\ modules_installed' = "False"
            /\ pc' = "modules_returned"
            /\ UNCHANGED <<layer, pos, early_exit, module_locals>>
       ELSE /\ failed_modules' = <<>>
            /\ successful_modules' = <<>>
            /\ layer' = 1 /\ pos' = 1 /\ early_exit' = FALSE
            /\ pc' = IF Len(module_dependencies) = 0 THEN "modules_report" ELSE "modules_walk"
            /\ UNCHANGED <<destroyed_modules, modules_installed>>
    /\ UNCHANGED <<config_vars, tool_locals, tools_installed, up_result, calls,
                   exit_status, layer_vars, script_vars, util_vars>>

\* lines 731-738: one iteration of the inner loop of install_modules
ModuleStep ==
    /\ pc = "modules_walk"
    /\ LET todo == LayerUnits(modules, module_dependencies[layer])
           module == todo[pos]
       IN /\ pos <= Len(todo)
          /\ \E r \in Outcomes :
                /\ calls' = Append(calls, Call("module", "initialize", module, r))
                /\ IF r = "raise"
                   THEN /\ pc' = "raised"
                        /\ UNCHANGED <<pos, early_exit, failed_modules, successful_modules>>
                   ELSE IF r = "False"
                   THEN /\ failed_modules' = Append(failed_modules, module)
                        /\ early_exit' = EarlyExitOnFailure(early_exit, fail_early)
                        /\ pos' = pos + 1
                        /\ UNCHANGED <<pc, successful_modules>>
                   ELSE /\ successful_modules' = Append(successful_modules, module)
                        /\ pos' = pos + 1
                        /\ UNCHANGED <<pc, early_exit, failed_modules>>
    /\ UNCHANGED <<config_vars, layer, destroyed_modules, tool_locals, tools_installed,
                   modules_installed, up_result, exit_status, layer_vars, script_vars, util_vars>>

\* lines 727-729, 740-741: a layer is finished
ModuleLayerEnd ==
    /\ pc = "modules_walk"
    /\ pos > Len(LayerUnits(modules, module_dependencies[layer]))
    /\ IF early_exit \/ layer = Len(module_dependencies)
       THEN /\ pc' = "modules_report"
            /\ UNCHANGED <<layer, pos, early_exit>>
       ELSE /\ layer' = layer + 1
            /\ pos' = 1
            /\ early_exit' = FALSE
            /\ UNCHANGED pc
    /\ UNCHANGED <<config_vars, tool_locals, module_locals, tools_installed,
                   modules_installed, up_result, calls, exit_status, layer_vars, script_vars, util_vars>>

\* lines 744-753, 764-767: the walk is over
ModulesReport ==
    /\ pc = "modules_report"
    /\ IF AnyFailed(failed_modules)
       THEN IF TeardownWanted(teardown_on_failure)
            THEN /\ destroyed_modules' = <<>>
                 /\ pos' = 1
                 /\ pc' = "modules_rollback"
                 /\ UNCHANGED modules_installed
            ELSE /\ modules_installed' = "False"
                 /\ pc' = "modules_returned"
                 /\ UNCHANGED <<destroyed_modules, pos>>
       ELSE /\ modules_installed' = "True"
            /\ pc' = "modules_returned"
            /\ UNCHANGED <<destroyed_modules, pos>>
    /\ UNCHANGED <<config_vars, layer, early_exit, failed_modules, successful_modules,
                   tool_locals, tools_installed, up_result, calls, exit_status,
                   layer_vars, script_vars, util_vars>>

\* lines 754-761: one iteration of the rollback loop of install_modules
ModuleRollbackStep ==
    /\ pc = "modules_rollback"
    /\ LET todo == RollbackList(modules, successful_modules)
           module == todo[pos]
       IN /\ pos <= Len(todo)
          /\ \E d \in Outcomes :
                /\ calls' = Append(calls, Call("module", "destroy", module, d))
                /\ IF d = "raise"
                   THEN /\ pc' = "raised"
                        /\ UNCHANGED <<pos, destroyed_modules, exit_status>>
                   ELSE IF DestroyFatal(d)
                   THEN /\ pc' = "exit"
                        /\ exit_status' = 1
                        /\ UNCHANGED <<pos, destroyed_modules>>
                   ELSE /\ destroyed_modules' = Append(destroyed_modules, module)
                        /\ pos' = pos + 1
                        /\ UNCHANGED <<pc, exit_status>>
    /\ UNCHANGED <<config_vars, layer, early_exit, failed_modules, successful_modules,
                   tool_locals, tools_installed, modules_installed, up_result,
                   layer_vars, script_vars, util_vars>>

\* line 764 after the rollback loop
ModuleRollbackEnd ==
    /\ pc = "modules_rollback"
    /\ pos > Len(RollbackList(modules, successful_modules))
    /\ modules_installed' = "False"
    /\ pc' = "modules_returned"
    /\ UNCHANGED <<config_vars, layer, pos, early_exit, tool_locals, module_locals,
                   tools_installed, up_result, calls, exit_status, layer_vars, script_vars, util_vars>>

\* lines 633-638: up() returns
UpReturn ==
    /\ entry = "up"
    /\ pc = "modules_returned"
    /\ up_result' = IF tools_installed = "True" /\ modules_installed = "True"
                    THEN "True" ELSE "False"
    /\ pc' = "up_returned"
    /\ UNCHANGED <<config_vars, layer, pos, early_exit, tool_locals, module_locals,
                   tools_installed, modules_installed, calls, exit_status, layer_vars, script_vars, util_vars>>

Next ==
    \/ InstallToolsCall \/ ToolStep \/ ToolLayerEnd \/ ToolsReport
    \/ ToolRollbackStep \/ ToolRollbackEnd
    \/ InstallModulesCall \/ ModuleStep \/ ModuleLayerEnd \/ ModulesReport
    \/ ModuleRollbackStep \/ ModuleRollbackEnd
    \/ UpReturn

Spec == Init /\ [][Next]_vars

\* ------------------------------------------- a Starter built directly
\* Starter(modules, tools, module_dependencies, tool_dependencies) stores the
\* layers it is given (lines 605-622); nothing relates them to the names of
\* the units. Every name, of a unit or of no unit, is put in the first layer,
\* in the second, or in none.
DirectPlaces == {"none", "first", "second"}

\* the names put at a place, as a layer
DirectLayer(where, place) ==
    LET Put(n) == n \in DOMAIN where /\ where[n] = place
    IN SelectSeq(AllNames \o (CHOOSE o \in Orderings(MissingNames) : TRUE), Put)

\* the lists of layers a caller can give for a collection: two layers, or
\* only those of the two that hold a name
DirectLayers(units) ==
    LET IsFilled(l) == l # <<>>
        Both(where) == <<DirectLayer(where, "first"), DirectLayer(where, "second")>>
    IN UNION {{Both(where), SelectSeq(Both(where), IsFilled)} :
                 where \in [Range(units) \cup MissingNames -> DirectPlaces]}

InitDirect ==
    /\ entry \in {"up", "install_tools", "install_modules"}
    /\ \E nt \in 0..(IF entry = "up" THEN UpTools ELSE IF entry = "install_tools" THEN NumTools ELSE 0),
          nm \in 0..(IF entry = "up" THEN UpModules ELSE IF entry = "install_modules" THEN NumModules ELSE 0) :
        /\ tools = ItemList(nt)
        /\ modules = ItemList(nm)
    /\ tool_deps = [n \in Range(tools) |-> NoneDeps]
    /\ module_deps = [n \in Range(modules) |-> NoneDeps]
    /\ tool_dependencies \in DirectLayers(tools)
    /\ module_dependencies \in DirectLayers(modules)
    /\ teardown_on_failure \in BOOLEAN
    /\ fail_early \in BOOLEAN
    /\ pc = "start" /\ layer = 1 /\ pos = 1 /\ early_exit = FALSE
    /\ failed_tools = <<>> /\ successful_tools = <<>> /\ destroyed_tools = <<>>
    /\ failed_modules = <<>> /\ successful_modules = <<>> /\ destroyed_modules = <<>>
    /\ tools_installed = "unset" /\ modules_installed = "unset" /\ up_result = "unset"
    /\ calls = <<>>
    /\ exit_status = -1
    /\ LayerIdle
    /\ ScriptIdle
    /\ EnvIdle
    /\ ProcIdle
    /\ SensIdle
    /\ OptionsIdle

SpecDirect == InitDirect /\ [][Next]_vars


\* ------------------------------------------------- script tables
\* The roles a table can define: Module.__init__ asks for init and destroy,
\* Tool.__init__ for install and uninstall, Tool.check for check.
ModuleRoles == {"init", "destroy"}
ToolRoles == {"install", "uninstall", "check"}
RolesOf(kind) == IF kind = "module" THEN ModuleRoles ELSE ToolRoles
PlatformKeys == {"windows", "mac", "linux"}
\* the values of platform.system().lower() on the three supported hosts
Systems == {"windows", "darwin", "linux"}
UnitName == "u"

\* A script table: the roles defined at the top level, and for each platform
\* key whether the sub-table is there and the roles it defines. The script
\* text of an entry is identified by the place it is written at.
NoSubTable == [present |-> FALSE, roles |-> {}]
SubTable(R) == [present |-> TRUE, roles |-> R]
ScriptTables(roles) ==
    [top : SUBSET roles,
     sub : [PlatformKeys -> {NoSubTable} \cup {SubTable(R) : R \in SUBSET roles}]]
ScriptAt(place, role) == <<place, role>>
None == <<>>

Returned(value) == [raised |-> "none", value |-> value, unit |-> "none", role |-> "none"]
Raised(type, name, role) == [raised |-> type, value |-> None, unit |-> name, role |-> role]

\* windows = _os in ["windows", "win32"]; macos = _os in ["darwin"]
IsWindows(os) == os \in {"windows", "win32"}
IsMacos(os) == os \in {"darwin"}

\* if script in scripts_dict: _script = scripts_dict[script]
TopLevelScript(role, table) ==
    IF role \in table.top THEN ScriptAt("top", role) ELSE None

\* The if / elif / elif chain over the platform sub-tables: the branch taken
\* ("none" when no condition holds) ...
PlatformBranch_linux(table, os) ==
    IF table.sub["linux"].present THEN "linux" ELSE "none"
PlatformBranch(table, os) ==
    IF IsWindows(os) /\ table.sub["windows"].present THEN "windows"
    ELSE IF IsMacos(os) /\ table.sub["mac"].present THEN "mac"
    ELSE IF (~IsWindows(os) /\ ~IsMacos(os)) /\ table.sub["linux"].present THEN "linux"
    ELSE "none"

\* ... and the value of _script after the branch
PlatformOverride(role, table, branch, current) ==
    IF branch # "none" /\ role \in table.sub[branch].roles
    THEN ScriptAt(branch, role) ELSE current

\* util.get_script(script, scripts_dict, name)
get_script(role, table, name, os) ==
    LET _script == PlatformOverride(role, table, PlatformBranch(table, os),
                                    TopLevelScript(role, table))
    IN IF _script = None THEN Raised("TypeError", name, role) ELSE Returned(_script)

\* Tool.get_script(script, scripts_dict, name): the missing script is raised
\* in the else branch of the chain only
Tool_get_script(role, table, name, os) ==
    LET branch == PlatformBranch(table, os)
        _script == PlatformOverride(role, table, branch, TopLevelScript(role, table))
    IN IF branch = "none" /\ _script = None
       THEN Raised("ValueError", name, role) ELSE Returned(_script)

\* Module.__init__: get_script("init", ...) then get_script("destroy", ...)
Module_init(table, name, os) ==
    LET i == get_script("init", table, name, os)
        d == get_script("destroy", table, name, os)
    IN IF i.raised # "none" THEN i
       ELSE IF d.raised # "none" THEN d
       ELSE Returned(ScriptAt("constructed", "module"))

\* Tool.__init__: a get_script that returns None raises TypeError
Tool_init(table, name, os) ==
    LET i == Tool_get_script("install", table, name, os)
        u == Tool_get_script("uninstall", table, name, os)
    IN IF i.raised # "none" THEN i
       ELSE IF i.value = None THEN Raised("TypeError", name, "install")
       ELSE IF u.raised # "none" THEN u
       ELSE IF u.value = None THEN Raised("TypeError", name, "uninstall")
       ELSE Returned(ScriptAt("constructed", "tool"))

\* The exit codes of a script: success and one failure.
ExitCodes == {0, 1}
BoolValue(b) == ScriptAt("bool", IF b THEN "True" ELSE "False")

\* Tool.check(): run("check") resolves the script with get_script and hands it
\* to run_script_with_env_substitution, whose replace_env applies a regular
\* expression to it (a TypeError when it is None); the result is code == 0.
Tool_check(table, name, os, code) ==
    LET s == Tool_get_script("check", table, name, os)
    IN IF s.raised # "none" THEN s
       ELSE IF s.value = None THEN Raised("TypeError", "none", "none")
       ELSE Returned(BoolValue(code = 0))

\* check_for_key(name, key, scripts)
check_for_key(name, key, table) ==
    LET all_platform_keys == {p \in PlatformKeys : table.sub[p].present}
        missing_platforms == {p \in all_platform_keys : key \notin table.sub[p].roles}
    IN IF key \notin table.top
       THEN IF Cardinality(all_platform_keys) # 3 THEN Raised("TypeError", name, key)
            ELSE IF Cardinality(missing_platforms) > 0 THEN Raised("TypeError", name, "init")
            ELSE Returned(None)
       ELSE Returned(None)

\* A script table of a module or of a tool on one host, before any operation.
InitScripts ==
    /\ unit_kind \in {"module", "tool"}
    /\ scripts_dict \in ScriptTables(RolesOf(unit_kind))
    /\ _os \in Systems
    /\ script_op = "none" /\ script = "none" /\ outcome = <<>> /\ spc = "start"
    /\ exit_status = -1
    /\ LayerIdle
    /\ StarterIdle
    /\ EnvIdle
    /\ ProcIdle
    /\ SensIdle
    /\ OptionsIdle

ScriptFrame ==
    UNCHANGED <<scripts_dict, unit_kind, _os, layer_vars, starter_vars, exit_status, util_vars>>

UtilGetScript ==
    /\ spc = "start" /\ unit_kind = "module"
    /\ \E r \in ModuleRoles :
          /\ script' = r
          /\ outcome' = get_script(r, scripts_dict, UnitName, _os)
    /\ script_op' = "util.get_script"
    /\ spc' = "done"
    /\ ScriptFrame

ToolGetScript ==
    /\ spc = "start" /\ unit_kind = "tool"
    /\ \E r \in ToolRoles :
          /\ script' = r
          /\ outcome' = Tool_get_script(r, scripts_dict, UnitName, _os)
    /\ script_op' = "Tool.get_script"
    /\ spc' = "done"
    /\ ScriptFrame

ModuleInit ==
    /\ spc = "start" /\ unit_kind = "module"
    /\ outcome' = Module_init(scripts_dict, UnitName, _os)
    /\ script_op' = "Module.__init__"
    /\ script' = "none"
    /\ spc' = "done"
    /\ ScriptFrame

ToolInit ==
    /\ spc = "start" /\ unit_kind = "tool"
    /\ outcome' = Tool_init(scripts_dict, UnitName, _os)
    /\ script_op' = "Tool.__init__"
    /\ script' = "none"
    /\ spc' = "done"
    /\ ScriptFrame

\* check() on a Tool that Tool.__init__ has accepted
ToolCheck ==
    /\ spc = "start" /\ unit_kind = "tool"
    /\ Tool_init(scripts_dict, UnitName, _os).raised = "none"
    /\ \E code \in ExitCodes :
          outcome' = Tool_check(scripts_dict, UnitName, _os, code)
    /\ script_op' = "Tool.check"
    /\ script' = "check"
    /\ spc' = "done"
    /\ ScriptFrame

CheckForKey ==
    /\ spc = "start" /\ unit_kind = "module"
    /\ \E r \in ModuleRoles :
          /\ script' = r
          /\ outcome' = check_for_key(UnitName, r, scripts_dict)
    /\ script_op' = "check_for_key"
    /\ spc' = "done"
    /\ ScriptFrame

\* Module.run(script), module.py lines 172-180: "script not in self.scripts"
\* looks at the keys of the table itself (the roles at the top level and the
\* platform keys), then get_script resolves the script that is run.
Module_run_script(role, table, name, os) ==
    IF role \notin table.top
    THEN Raised("ValueError", name, role)
    ELSE get_script(role, table, name, os)

\* run("init") or run("destroy") on a Module that the constructor accepted
ModuleRun ==
    /\ spc = "done" /\ script_op = "Module.__init__" /\ outcome.raised = "none"
    /\ \E r \in ModuleRoles :
          /\ script' = r
          /\ outcome' = Module_run_script(r, scripts_dict, UnitName, _os)
    /\ script_op' = "Module.run"
    /\ spc' = "ran"
    /\ ScriptFrame

NextScripts ==
    \/ UtilGetScript \/ ToolGetScript \/ ModuleInit \/ ToolInit \/ ToolCheck \/ CheckForKey
    \/ ModuleRun

SpecScripts == InitScripts /\ [][NextScripts]_vars


\* ------------------------------------------------- replace_env
MaxPieces == 3        \* pieces of the string given to replace_env
MaxValuePieces == 2   \* pieces of the value of an environment variable
MaxSetPlaceholders == 3   \* placeholders of set variables in a string given back to replace_env

\* A string is the sequence of its pieces: a run of plain text, or one
\* placeholder ${NAME} (what the pattern \$\{(.+?)} matches).
PlaceholderNames == {"A", "B"}
PlainText == <<"x">>
Placeholder(name) == <<"${", name, "}">>
Pieces == {PlainText} \cup {Placeholder(n) : n \in PlaceholderNames}
StringsUpTo(n) == UNION {[1..k -> Pieces] : k \in 0..n}

\* os.environ: the names that are set, each with its value
Environments(names, values) == UNION {[S -> values] : S \in SUBSET names}

\* pattern.findall(string): the names of the placeholders, in order
RECURSIVE FindAll(_)
FindAll(str) ==
    IF str = <<>> THEN <<>>
    ELSE IF Head(str) \in {Placeholder(n) : n \in PlaceholderNames}
         THEN <<Head(str)[2]>> \o FindAll(Tail(str))
         ELSE FindAll(Tail(str))

\* string.replace(f"${{{match}}}", env_value): every occurrence, in the
\* string as it is now
RECURSIVE StrReplace(_, _, _)
StrReplace(str, old, new) ==
    IF str = <<>> THEN <<>>
    ELSE (IF Head(str) = old THEN new ELSE <<Head(str)>>) \o StrReplace(Tail(str), old, new)

\* the for loop over the matches (util.py lines 214-217)
RECURSIVE ReplaceMatches(_, _, _)
ReplaceMatches(str, matches, env) ==
    IF matches = <<>> THEN str
    ELSE LET match == Head(matches)
             next == IF match \in DOMAIN env
                     THEN StrReplace(str, Placeholder(match), env[match])
                     ELSE str
         IN ReplaceMatches(next, Tail(matches), env)

\* util.replace_env(string)
replace_env_first(str, env) ==
    ReplaceMatches(str, IF FindAll(str) = <<>> THEN <<>> ELSE <<Head(FindAll(str))>>, env)
replace_env(str, env) == ReplaceMatches(str, FindAll(str), env)

EnvFrame == UNCHANGED <<layer_vars, starter_vars, exit_status, script_vars, proc_vars, sens_vars, option_vars>>

InitReplaceEnv ==
    /\ string \in StringsUpTo(MaxPieces)
    /\ environ \in Environments(PlaceholderNames, StringsUpTo(MaxValuePieces))
    /\ replaced = <<>>
    /\ initial_vars = <<>> /\ final_vars = <<>> /\ captured = <<>> /\ answers = <<>>
    /\ env_dump_mode = "none" /\ dump_file = <<>>
    /\ epc = "start"
    /\ exit_status = -1
    /\ LayerIdle /\ StarterIdle /\ ScriptIdle /\ ProcIdle /\ SensIdle /\ OptionsIdle

ReplaceEnv ==
    /\ epc = "start"
    /\ replaced' = replace_env(string, environ)
    /\ epc' = "done"
    /\ UNCHANGED <<environ, string, initial_vars, final_vars, captured, answers,
                   env_dump_mode, dump_file>>
    /\ EnvFrame

\* replace_env(replace_env(string)): the result is given to replace_env again
ReplaceEnvAgain ==
    /\ epc = "done"
    /\ Len(SelectSeq(FindAll(replaced), LAMBDA m : m \in DOMAIN environ)) <= MaxSetPlaceholders
    /\ string' = replaced
    /\ replaced' = replace_env(replaced, environ)
    /\ epc' = "again"
    /\ UNCHANGED <<environ, initial_vars, final_vars, captured, answers,
                   env_dump_mode, dump_file>>
    /\ EnvFrame

NextReplaceEnv == ReplaceEnv \/ ReplaceEnvAgain

SpecReplaceEnv == InitReplaceEnv /\ [][NextReplaceEnv]_vars


\* ------------------------------------------------- sensitive variables
MaxNameChunks == 2    \* chunks a variable name is put together from
MaxValueChunks == 1   \* chunks a value is put together from

\* Names and values are sequences of characters.
NameChunks ==
    {<<"A", "P", "I", "_", "K", "E", "Y">>,
     <<"T", "O", "K", "E", "N">>,
     <<"P", "A", "S", "S", "W", "O", "R", "D">>,
     <<"S", "E", "C", "R", "E", "T">>,
     <<"P", "R", "I", "V", "A", "T", "E", "_", "K", "E", "Y">>,
     <<"A", "C", "C", "E", "S", "S", "_", "K", "E", "Y">>,
     <<"t", "o", "k", "e", "n">>,
     <<"S", "e", "c", "r", "e", "t">>,
     <<"a", "c", "c", "e", "s", "s", "_", "k", "e", "y">>,
     <<"A", "p", "i", "_", "K", "e", "y">>,
     <<"T", "O", "K">>,
     <<"E", "N">>,
     <<"_", "K", "E", "Y">>,
     <<"C", "O", "U", "N", "T">>,
     <<"M", "Y", "_">>,
     <<"P", "A", "T", "H">>}
ValueChunks ==
    {<<"1">>,
     <<"s", "3", "c", "r", "3", "t">>,
     <<"a", "b", "c", "d", "e", "f", "g", "h", "i", "j", "k">>,
     <<"a", "b", "c", "d", "e", "f", "g", "h", "i", "j", "k", "l">>,
     <<"F", "h", "d", "@", "a", "F", "+", "8", "8", "n", "Z", "V", "$", "h", "4", "Y", "F", "e", "4", "4", "5">>}

RECURSIVE Concat(_)
Concat(chunks) == IF chunks = <<>> THEN <<>> ELSE Head(chunks) \o Concat(Tail(chunks))
Joined(chunks, lo, hi) == {Concat(c) : c \in UNION {[1..k -> chunks] : k \in lo..hi}}

SENSITIVE_PATTERNS_five ==
    <<<<"A", "P", "I", "_", "K", "E", "Y">>,
      <<"T", "O", "K", "E", "N">>,
      <<"P", "A", "S", "S", "W", "O", "R", "D">>,
      <<"S", "E", "C", "R", "E", "T">>,
      <<"P", "R", "I", "V", "A", "T", "E", "_", "K", "E", "Y">>>>
SENSITIVE_PATTERNS ==
    <<<<"A", "P", "I", "_", "K", "E", "Y">>,
      <<"T", "O", "K", "E", "N">>,
      <<"P", "A", "S", "S", "W", "O", "R", "D">>,
      <<"S", "E", "C", "R", "E", "T">>,
      <<"P", "R", "I", "V", "A", "T", "E", "_", "K", "E", "Y">>,
      <<"A", "C", "C", "E", "S", "S", "_", "K", "E", "Y">>>>

\* HIGH_ENTROPY_THRESHOLD = 3.5 bits, in thousandths of a bit
HIGH_ENTROPY_THRESHOLD == 3500

\* re.IGNORECASE: letters are compared without their case
UpperCase ==
    [a |-> "A", b |-> "B", c |-> "C", d |-> "D", e |-> "E", f |-> "F", g |-> "G", h |-> "H", i |-> "I", j |-> "J", k |-> "K", l |-> "L", m |-> "M",
     n |-> "N", o |-> "O", p |-> "P", q |-> "Q", r |-> "R", s |-> "S", t |-> "T", u |-> "U", v |-> "V", w |-> "W", x |-> "X", y |-> "Y", z |-> "Z"]
ToUpper(c) == IF c \in DOMAIN UpperCase THEN UpperCase[c] ELSE c

\* pattern.search(key)
PatternSearch(pattern, k) ==
    \E i \in 1..(Len(k) - Len(pattern) + 1) :
        \A j \in 1..Len(pattern) : ToUpper(k[i + j - 1]) = ToUpper(pattern[j])

\* math.log2 of 1..64 in thousandths of a bit, rounded down
Log2 ==
    <<0, 1000, 1584, 2000, 2321, 2584, 2807, 3000, 3169, 3321, 3459, 3584, 3700, 3807,
      3906, 4000, 4087, 4169, 4247, 4321, 4392, 4459, 4523, 4584, 4643, 4700, 4754,
      4807, 4857, 4906, 4954, 5000, 5044, 5087, 5129, 5169, 5209, 5247, 5285, 5321,
      5357, 5392, 5426, 5459, 5491, 5523, 5554, 5584, 5614, 5643, 5672, 5700, 5727,
      5754, 5781, 5807, 5832, 5857, 5882, 5906, 5930, 5954, 5977, 6000>>

\* data.count(x)
Count(data, x) == Cardinality({i \in DOMAIN data : data[i] = x})

RECURSIVE SumCounts(_, _)
SumCounts(data, chars) ==
    IF chars = {} THEN 0
    ELSE LET x == CHOOSE c \in chars : TRUE
         IN Count(data, x) * Log2[Count(data, x)] + SumCounts(data, chars \ {x})

\* calculate_entropy(data), in thousandths of a bit:
\* sum of -p log2 p  =  log2 N - (sum of c log2 c) / N
calculate_entropy(data) ==
    IF data = <<>> THEN 0
    ELSE (Len(data) * Log2[Len(data)] - SumCounts(data, {data[i] : i \in DOMAIN data}))
             \div Len(data)

is_potentially_sensitive_key_value(k, v) ==
    IF \E p \in DOMAIN SENSITIVE_PATTERNS : PatternSearch(SENSITIVE_PATTERNS[p], k)
    THEN TRUE
    ELSE IF calculate_entropy(v) > HIGH_ENTROPY_THRESHOLD THEN TRUE
    ELSE FALSE

SensFrame ==
    UNCHANGED <<layer_vars, starter_vars, exit_status, script_vars, env_vars, proc_vars, option_vars>>

InitSensitive ==
    /\ env_key \in Joined(NameChunks, 1, MaxNameChunks)
    /\ env_value \in Joined(ValueChunks, 0, MaxValueChunks)
    /\ sensitive = "none"
    /\ kpc = "start"
    /\ exit_status = -1
    /\ LayerIdle /\ StarterIdle /\ ScriptIdle /\ EnvIdle /\ ProcIdle /\ OptionsIdle

IsPotentiallySensitiveKeyValue ==
    /\ kpc = "start"
    /\ sensitive' = is_potentially_sensitive_key_value(env_key, env_value)
    /\ kpc' = "done"
    /\ UNCHANGED <<env_key, env_value>>
    /\ SensFrame

NextSensitive == IsPotentiallySensitiveKeyValue

SpecSensitive == InitSensitive /\ [][NextSensitive]_vars


\* ------------------------------------------------- do_starter_init: the dump
\* The variables that appear or change while the Path is opened.
EnvNames == {<<"A", "P", "I", "_", "K", "E", "Y">>, <<"C", "O", "U", "N", "T">>, <<"P", "A", "T", "H">>}
EnvValues == {<<"1">>, <<"F", "h", "d", "@", "a", "F", "+", "8", "8", "n", "Z", "V", "$", "h", "4", "Y", "F", "e", "4", "4", "5">>}

\* starter.env_dump_file / starter.env_dump_mode: no dump, overwrite, append
DumpModes == {"none", "w", "a"}

\* what the user types at the prompt (y/N)
Answers == {"y", "Y", "n", ""}

\* include_var.lower() == 'y'
Approved_always(answer) == TRUE
Approved(answer) == answer \in {"y", "Y"}

\* EnvironmentVariableManager.capture_final_env: self.final_vars.update(new_vars)
capture_final_env_all(initial, final, current) ==
    [k \in DOMAIN final \cup DOMAIN current |-> IF k \in DOMAIN current THEN current[k] ELSE final[k]]
capture_final_env(initial, final, current) ==
    LET new_vars == DOMAIN current \ DOMAIN initial
    IN [k \in DOMAIN final \cup new_vars |-> IF k \in new_vars THEN current[k] ELSE final[k]]

\* EnvironmentVariableManager.get_captured_vars
get_captured_vars(final) ==
    [not_potentially_sensitive |->
        [k \in {n \in DOMAIN final : ~is_potentially_sensitive_key_value(n, final[n])} |-> final[k]],
     potentially_sensitive |->
        [k \in {n \in DOMAIN final : is_potentially_sensitive_key_value(n, final[n])} |-> final[k]]]

InitEnvDump ==
    /\ environ \in Environments(EnvNames, EnvValues)
    /\ env_dump_mode \in DumpModes
    /\ dump_file = {<<"previous">>}
    /\ string = <<>> /\ replaced = <<>>
    /\ initial_vars = <<>> /\ final_vars = <<>> /\ captured = <<>> /\ answers = <<>>
    /\ epc = "start"
    /\ exit_status = -1
    /\ LayerIdle /\ StarterIdle /\ ScriptIdle /\ ProcIdle /\ SensIdle /\ OptionsIdle

\* EnvironmentVariableManager.__init__ (paths.py line 174)
ManagerInit ==
    /\ epc = "start"
    /\ initial_vars' = environ
    /\ final_vars' = <<>>
    /\ epc' = "up"
    /\ UNCHANGED <<environ, string, replaced, captured, answers, env_dump_mode, dump_file>>
    /\ EnvFrame

\* starter.up(...): a variable is set, changed or removed
StarterUpSetsEnv ==
    /\ epc = "up"
    /\ \E name \in EnvNames :
         \/ \E val \in EnvValues :
              environ' = [k \in DOMAIN environ \cup {name} |-> IF k = name THEN val ELSE environ[k]]
         \/ /\ name \in DOMAIN environ
            /\ environ' = [k \in DOMAIN environ \ {name} |-> environ[k]]
    /\ UNCHANGED <<string, replaced, initial_vars, final_vars, captured, answers,
                   env_dump_mode, dump_file, epc>>
    /\ EnvFrame

\* do_starter_init, lines 193-218: capture, classify, ask, write.
\* The file is the set of its lines; a variable is the line <<key, val>>.
DoStarterInitDump ==
    /\ epc = "up"
    /\ epc' = "done"
    /\ IF env_dump_mode = "none"
       THEN UNCHANGED <<final_vars, captured, answers, dump_file>>
       ELSE LET final == capture_final_env(initial_vars, final_vars, environ)
                got == get_captured_vars(final)
                nonsensitive == got.not_potentially_sensitive
                sens == got.potentially_sensitive
            IN /\ final_vars' = final
               /\ captured' = got
               /\ answers' \in [DOMAIN sens -> Answers]
               /\ LET approved_sensitive == {k \in DOMAIN sens : Approved(answers'[k])}
                      lines == {<<k, nonsensitive[k]>> : k \in DOMAIN nonsensitive}
                                 \cup {<<k, sens[k]>> : k \in approved_sensitive}
                  IN dump_file' = IF env_dump_mode = "a"
                                  THEN dump_file \cup {<<>>} \cup lines
                                  ELSE lines
    /\ UNCHANGED <<environ, string, replaced, initial_vars, env_dump_mode>>
    /\ EnvFrame

NextEnvDump == ManagerInit \/ StarterUpSetsEnv \/ DoStarterInitDump

SpecEnvDump == InitEnvDump /\ [][NextEnvDump]_vars


\* ------------------------------------------------- child processes
MaxLines == 2   \* lines of output the child of monitored_subprocess writes

\* one process started: through a shell or as an argument vector, by which
\* program, with which arguments, with its output captured or not
Started(how, program, args, capture, monitored) ==
    [how |-> how, program |-> program, args |-> args, capture |-> capture,
     monitored |-> monitored]

\* str(result.stdout): the child writes "out"; without a pipe stdout is None
StdoutOf(capture) == IF capture THEN "out" ELSE "None"

\* util.run_script_with_env_substitution. h.first: the first token after
\* shlex.split ("none" when the script has no token), found on PATH or missing
run_script_with_env_substitution(h) ==
    IF h.first = "none"
    THEN [events |-> <<>>, result |-> Raised("IndexError", "none", "none")]
    ELSE IF h.first = "missing" \/ h.multiline
    THEN IF h.windows
         THEN LET windows_shell == IF h.pwsh THEN "pwsh" ELSE "powershell"
              IN [events |-> <<Started("shell", windows_shell, "whole script", h.monitor, h.monitor)>>,
                  result |-> Returned(<<StdoutOf(h.monitor), h.code>>)]
         ELSE [events |-> <<Started("shell", "sh", "whole script", TRUE, h.monitor)>>,
               result |-> Returned(<<StdoutOf(TRUE), h.code>>)]
    ELSE [events |-> <<Started("argv", "first token", "split", TRUE, h.monitor)>>,
          result |-> Returned(<<StdoutOf(TRUE), h.code>>)]

\* Module.run("init"): the role has to be a top-level key of the table
Module_run(h) ==
    IF ~h.init_top THEN Raised("ValueError", "none", "init")
    ELSE Returned(h.init)

\* GitModule.initialize of module.py and of starterfile.py (check=True)
GitModule_initialize(h) ==
    IF ~h.git
    THEN [events |-> <<>>, result |-> Raised("OSError", "none", "none")]
    ELSE IF h.clone # 0
    THEN [events |-> <<"clone">>,
          result |-> IF h.version = "starterfile.py"
                     THEN Raised("CalledProcessError", "none", "none")
                     ELSE Returned(FALSE)]
    ELSE IF Module_run(h).raised # "none"
    THEN [events |-> <<"clone">>, result |-> Module_run(h)]
    ELSE [events |-> <<"clone", "init">>, result |-> Returned(Module_run(h).value = 0)]

\* ScriptModule.initialize of module.py (source, then init) and of
\* starterfile.py (bash -c source alone; git-bash on Windows)
ScriptModule_initialize(h) ==
    IF h.version = "starterfile.py"
    THEN IF h.windows /\ ~h.git_bash
         THEN [events |-> <<>>, result |-> Raised("OSError", "none", "none")]
         ELSE [events |-> <<"source">>, result |-> Returned(h.source = 0)]
    ELSE IF h.source # 0
    THEN [events |-> <<"source">>, result |-> Returned(FALSE)]
    ELSE IF Module_run(h).raised # "none"
    THEN [events |-> <<"source">>, result |-> Module_run(h)]
    ELSE [events |-> <<"source", "init">>, result |-> Returned(Module_run(h).value = 0)]

ProcFrame == UNCHANGED <<layer_vars, starter_vars, exit_status, script_vars, env_vars, sens_vars, option_vars>>

InitProc ==
    /\ \/ /\ proc_op = "run_script_with_env_substitution"
          /\ host \in [first : {"none", "found", "missing"}, multiline : BOOLEAN,
                       windows : BOOLEAN, pwsh : BOOLEAN, monitor : BOOLEAN,
                       code : ExitCodes]
       \/ /\ proc_op = "monitored_subprocess"
          /\ host \in [lines : 0..MaxLines, code : ExitCodes]
       \/ /\ proc_op = "GitModule.initialize"
          /\ host \in [version : {"module.py", "starterfile.py"}, git : BOOLEAN,
                       clone : ExitCodes, init : ExitCodes, init_top : BOOLEAN]
          /\ host.version = "starterfile.py" => host.init_top
       \/ /\ proc_op = "ScriptModule.initialize"
          /\ host \in [version : {"module.py", "starterfile.py"}, windows : BOOLEAN,
                       git_bash : BOOLEAN, source : ExitCodes, init : ExitCodes,
                       init_top : BOOLEAN]
          /\ host.version = "starterfile.py" => host.init_top
    /\ events = <<>>
    /\ child = "none"
    /\ proc_result = <<>>
    /\ ppc = "start"
    /\ exit_status = -1
    /\ LayerIdle /\ StarterIdle /\ ScriptIdle /\ EnvIdle /\ SensIdle /\ OptionsIdle

RunScript ==
    /\ proc_op = "run_script_with_env_substitution" /\ ppc = "start"
    /\ events' = run_script_with_env_substitution(host).events
    /\ proc_result' = run_script_with_env_substitution(host).result
    /\ ppc' = "done"
    /\ UNCHANGED <<proc_op, host, child>>
    /\ ProcFrame

GitModuleInitialize ==
    /\ proc_op = "GitModule.initialize" /\ ppc = "start"
    /\ events' = GitModule_initialize(host).events
    /\ proc_result' = GitModule_initialize(host).result
    /\ ppc' = "done"
    /\ UNCHANGED <<proc_op, host, child>>
    /\ ProcFrame

ScriptModuleInitialize ==
    /\ proc_op = "ScriptModule.initialize" /\ ppc = "start"
    /\ events' = ScriptModule_initialize(host).events
    /\ proc_result' = ScriptModule_initialize(host).result
    /\ ppc' = "done"
    /\ UNCHANGED <<proc_op, host, child>>
    /\ ProcFrame

\* monitored_subprocess, step by step.  process = subprocess.Popen(...)
MonitoredPopen ==
    /\ proc_op = "monitored_subprocess" /\ ppc = "start"
    /\ child' = "running"
    /\ events' = <<"popen">>
    /\ ppc' = "reading"
    /\ UNCHANGED <<proc_op, host, proc_result>>
    /\ ProcFrame

\* for line in process.stdout: one more line, or the end of the output
MonitoredRead ==
    /\ proc_op = "monitored_subprocess" /\ ppc = "reading"
    /\ LET read == Cardinality({i \in DOMAIN events : events[i] = "line"})
       IN IF read < host.lines
          THEN /\ events' = Append(events, "line")
               /\ ppc' = "reading"
          ELSE /\ events' = events
               /\ ppc' = "finally"
    /\ UNCHANGED <<proc_op, host, child, proc_result>>
    /\ ProcFrame

\* except KeyboardInterrupt: process.terminate(); raise click.Abort()
OnKeyboardInterrupt_raise_only == <<"KeyboardInterrupt">>
OnKeyboardInterrupt == <<"KeyboardInterrupt", "terminate">>

MonitoredInterrupt ==
    /\ proc_op = "monitored_subprocess" /\ ppc = "reading"
    /\ events' = events \o OnKeyboardInterrupt
    /\ child' = IF "terminate" \in Range(OnKeyboardInterrupt) THEN "terminated" ELSE child
    /\ proc_result' = Raised("Abort", "none", "none")
    /\ ppc' = "finally"
    /\ UNCHANGED <<proc_op, host>>
    /\ ProcFrame

\* finally: process.wait(); then the pending Abort goes on to the caller, or
\* the CompletedProcess is returned
MonitoredWait ==
    /\ proc_op = "monitored_subprocess" /\ ppc = "finally"
    /\ events' = Append(events, "wait")
    /\ child' = "reaped"
    /\ IF proc_result # <<>>
       THEN proc_result' = proc_result
       ELSE proc_result' =
              Returned(<<Cardinality({i \in DOMAIN events : events[i] = "line"}), host.code>>)
    /\ ppc' = "done"
    /\ UNCHANGED <<proc_op, host>>
    /\ ProcFrame

NextProc ==
    \/ RunScript
    \/ GitModuleInitialize
    \/ ScriptModuleInitialize
    \/ MonitoredPopen
    \/ MonitoredRead
    \/ MonitoredInterrupt
    \/ MonitoredWait

SpecProc == InitProc /\ [][NextProc]_vars


\* ------------------------------------------------- init options
MaxOptions == 2     \* keys of the dictionary given to set_init_options
MaxResponses == 3   \* responses the user types at one prompt

\* a Python value: its type and what str() makes of it
PyValue(type, repr) == [type |-> type, repr |-> repr]
PyNone == PyValue("NoneType", "None")

\* the option lists of the modules "a" and "b": module.init_options is None,
\* or a list of InitOption with value None
OptionLists ==
    [{"a", "b"} -> {[none |-> TRUE, values |-> <<>>]}
                     \cup {[none |-> FALSE, values |-> [n \in S |-> PyNone]] : S \in SUBSET {"X", "Y"}}]

\* dictionaries {(module_name, option_name): value} of n keys, in insertion order
OptionDicts(n) ==
    LET Key == [module : {"a", "b", "c"}, name : {"X", "Y"},
                value : {PyValue("bool", "True"), PyValue("int", "1"), PyValue("str", "1")}]
    IN {d \in [1..n -> Key] :
          \A i \in 1..n : \A j \in 1..n :
              (i # j) => <<d[i].module, d[i].name>> # <<d[j].module, d[j].name>>}

\* one pass of the loop of set_init_options (lines 788-798)
SetOption_env_only(st, k) ==
    [st EXCEPT !.environ = [n \in DOMAIN st.environ \cup {k.name} |->
                               IF n = k.name THEN k.value.repr ELSE st.environ[n]]]
SetOption(st, k) ==
    LET env == [n \in DOMAIN st.environ \cup {k.name} |->
                   IF n = k.name THEN k.value.repr ELSE st.environ[n]]
        mods == st.init_options
    IN IF k.module \notin DOMAIN mods
       THEN [environ |-> env, init_options |-> mods, raised |-> "IndexError"]
       ELSE IF mods[k.module].none
       THEN [environ |-> env, init_options |-> mods, raised |-> "TypeError"]
       ELSE IF k.name \notin DOMAIN mods[k.module].values
       THEN [environ |-> env, init_options |-> mods, raised |-> "IndexError"]
       ELSE [environ |-> env,
             init_options |-> [mods EXCEPT ![k.module].values[k.name] = k.value],
             raised |-> "none"]

\* Starter.set_init_options(options)
RECURSIVE set_init_options(_, _)
set_init_options(st, opts) ==
    IF opts = <<>> \/ st.raised # "none" THEN st
    ELSE set_init_options(SetOption(st, Head(opts)), Tail(opts))

\* util.string_to_bool: lex.get(string_input.lower(), None)
string_to_bool(s) ==
    IF s \in {"y", "Yes"} THEN PyValue("bool", "True")
    ELSE IF s \in {"No"} THEN PyValue("bool", "False")
    ELSE PyNone

\* _T(potential_response) for int, float and str; ValueError when the text is
\* no number
Converted(type, s) ==
    IF type = "str" THEN PyValue("str", s)
    ELSE IF type = "int" /\ s = "1" THEN PyValue("int", "1")
    ELSE IF type = "float" /\ s = "1" THEN PyValue("float", "1.0")
    ELSE IF type = "float" /\ s = "1.5" THEN PyValue("float", "1.5")
    ELSE PyValue("ValueError", s)

OptionsFrame ==
    UNCHANGED <<layer_vars, starter_vars, exit_status, script_vars, env_vars, proc_vars, sens_vars>>

InitOptions ==
    /\ \/ /\ opt_op = "set_init_options"
          /\ init_options \in OptionLists
          /\ options \in UNION {OptionDicts(n) : n \in 0..MaxOptions}
          /\ option_default = <<>> /\ stream = <<>>
       \/ /\ opt_op = "prompt_init_option"
          /\ option_default \in {PyValue("bool", "False"), PyValue("int", "0"),
                                 PyValue("float", "0.5"), PyValue("str", "default")}
          /\ stream \in UNION {[1..n -> {"", "y", "Yes", "No", "maybe", "1", "1.5"}] : n \in 1..MaxResponses}
          /\ init_options = <<>> /\ options = <<>>
    /\ os_environ = <<>>
    /\ consumed = 0
    /\ potential_response = <<>>
    /\ response = PyNone
    /\ opc = "start"
    /\ exit_status = -1
    /\ LayerIdle /\ StarterIdle /\ ScriptIdle /\ EnvIdle /\ ProcIdle /\ SensIdle

SetInitOptions ==
    /\ opt_op = "set_init_options" /\ opc = "start"
    /\ LET st == set_init_options([environ |-> os_environ, init_options |-> init_options,
                                   raised |-> "none"], options)
       IN /\ os_environ' = st.environ
          /\ init_options' = st.init_options
          /\ opc' = IF st.raised = "none" THEN "returned" ELSE st.raised
    /\ UNCHANGED <<opt_op, options, option_default, stream, consumed, potential_response, response>>
    /\ OptionsFrame

\* prompt_init_option, lines 54-58: the first console.input
PromptInput ==
    /\ opt_op = "prompt_init_option" /\ opc = "start"
    /\ potential_response' = stream[1]
    /\ consumed' = 1
    /\ opc' = "while"
    /\ UNCHANGED <<opt_op, init_options, options, os_environ, option_default, stream, response>>
    /\ OptionsFrame

\* lines 62-73: one pass of the loop "while response is None"
PromptLoop ==
    /\ opt_op = "prompt_init_option" /\ opc = "while" /\ response = PyNone
    /\ IF potential_response # ""
       THEN IF option_default.type = "bool"
            THEN /\ response' = string_to_bool(potential_response)
                 /\ UNCHANGED <<potential_response, consumed>>
            ELSE IF Converted(option_default.type, potential_response).type = "ValueError"
            THEN /\ consumed < Len(stream)
                 /\ potential_response' = stream[consumed + 1]
                 /\ consumed' = consumed + 1
                 /\ UNCHANGED response
            ELSE /\ response' = Converted(option_default.type, potential_response)
                 /\ UNCHANGED <<potential_response, consumed>>
       ELSE /\ response' = option_default
            /\ UNCHANGED <<potential_response, consumed>>
    /\ UNCHANGED <<opt_op, init_options, options, os_environ, option_default, stream, opc>>
    /\ OptionsFrame

\* line 75: return response
PromptReturn ==
    /\ opt_op = "prompt_init_option" /\ opc = "while" /\ response # PyNone
    /\ opc' = "returned"
    /\ UNCHANGED <<opt_op, init_options, options, os_environ, option_default, stream,
                   consumed, potential_response, response>>
    /\ OptionsFrame

NextOptions == SetInitOptions \/ PromptInput \/ PromptLoop \/ PromptReturn

\* the loop of prompt_init_option goes on as long as it can
SpecOptions == InitOptions /\ [][NextOptions]_vars /\ WF_vars(NextOptions)


\* ================================================================ claims
\* ---- create_dependency_layers (SpecLayers)
LDeps(n) == dependencies[n].names
Closed == \A n \in Range(items) : LDeps(n) \subseteq Range(items)
\* some non-empty set of units each of which depends on a unit of the set
HasCycle == \E C \in SUBSET Range(items) : C # {} /\ \A n \in C : LDeps(n) \cap C # {}
LayeringDone == lpc \in {"returned", "exit"}
Placed == Flatten(dependency_layers)
Unplaced == Range(items) \ Range(Placed)
InLayer(n, k) == k \in 1..Len(dependency_layers) /\ n \in Range(dependency_layers[k])

\* C2: for unique names, dependencies inside the collection and no cycle,
\* create_dependency_layers returns, every unit name occurs exactly once over
\* all layers, and every dependency of a unit lies in a strictly earlier layer.
C2_LayeringTotality ==
    (Closed /\ ~HasCycle /\ LayeringDone) =>
        /\ lpc = "returned"
        /\ Len(Placed) = Len(items)
        /\ Range(Placed) = Range(items)
        /\ \A n \in Range(items) : \A d \in LDeps(n) :
              \E k \in 1..Len(dependency_layers) : \E j \in 1..(k - 1) :
                  InLayer(n, k) /\ InLayer(d, j)

C2_Witness ==
    /\ lpc = "returned"
    /\ Len(dependency_layers) = 3
    /\ \E n \in Range(items) : Cardinality(LDeps(n)) = 2

\* C3 as stated: whenever the dependencies contain a cycle the call never
\* returns and ends with exit status 1 having reported the unplaced units.
C3_CycleAlwaysReportsUnplaced ==
    HasCycle =>
        /\ lpc # "returned"
        /\ LayeringDone => (lpc = "exit" /\ exit_status = 1 /\ reported = Unplaced)

\* C3 amended: when the dependencies contain a cycle and name only units of
\* the collection, the call never returns and ends with exit status 1 having
\* reported the units that could not be placed.
C3_CycleDetection ==
    (HasCycle /\ Closed) =>
        /\ lpc # "returned"
        /\ LayeringDone => (lpc = "exit" /\ exit_status = 1 /\ reported = Unplaced)

C3_Witness ==
    /\ HasCycle /\ Closed
    /\ lpc = "exit"
    /\ Len(dependency_layers) = 2
    /\ \E n \in Range(items) : n \in LDeps(n)

\* C4: when some unit depends on a name that no unit carries, the call ends
\* with exit status 1, reports exactly the absent names, returns no layering
\* and forms no layer after layer 0.
C4_MissingDependency ==
    LET absent == UNION {LDeps(n) : n \in Range(items)} \ Range(items)
    IN absent # {} =>
        /\ lpc # "returned"
        /\ Len(dependency_layers) <= 1
        /\ LayeringDone => (lpc = "exit" /\ exit_status = 1 /\ reported = absent)

C4_Witness ==
    /\ lpc = "exit"
    /\ reported = MissingNames
    /\ Len(dependency_layers) = 1
    /\ dependency_layers[1] # <<>>
    /\ \E n \in Range(items) : LDeps(n) \cap Range(items) # {}


\* ---- Starter.up / install_tools / install_modules (Spec)
CallIdx == 1..Len(calls)
Kinds == {"tool", "module"}
\* the units on which op was called in the install call of the kind
UnitsCalled(k, op) ==
    {calls[i].unit : i \in {j \in CallIdx : calls[j].kind = k /\ calls[j].op = op}}
\* the units on which op was called and had the result r
UnitsWith(k, op, r) ==
    {calls[i].unit : i \in {j \in CallIdx : calls[j] = Call(k, op, calls[j].unit, r)}}
DepsOf(k, u) == IF k = "tool" THEN tool_deps[u].names ELSE module_deps[u].names
LayersOf(k) == IF k = "tool" THEN tool_dependencies ELSE module_dependencies
FailedOf(k) == IF k = "tool" THEN failed_tools ELSE failed_modules
LayerIndex(k, u) == CHOOSE n \in 1..Len(LayersOf(k)) : u \in Range(LayersOf(k)[n])
\* the install call of the kind was entered and is over: it returned, or the
\* process ended inside it
InstallOver(k) ==
    \/ k = "tool" /\ tools_installed # "unset"
    \/ k = "module" /\ modules_installed # "unset"
    \/ pc \in {"raised", "exit"}
ModulesEntered ==
    \/ modules_installed # "unset"
    \/ pc \in {"modules_walk", "modules_report", "modules_rollback"}
    \/ \E i \in CallIdx : calls[i].kind = "module"

\* C1: with teardown_on_failure, destroy is only ever called on units whose
\* initialize returned success in this call, and once a call in which an
\* initialize failed is over with no destroy having failed, destroy has been
\* called on exactly those units.
C1_RollbackScope ==
    teardown_on_failure =>
        \A k \in Kinds :
            /\ UnitsCalled(k, "destroy") \subseteq UnitsWith(k, "initialize", "True")
            /\ ( /\ InstallOver(k)
                 /\ UnitsWith(k, "initialize", "False") # {}
                 /\ UnitsCalled(k, "destroy") = UnitsWith(k, "destroy", "True") )
               => UnitsCalled(k, "destroy") = UnitsWith(k, "initialize", "True")

\* C5: whenever initialize is called on a unit, each of its dependencies was
\* processed earlier in the call and was initialized successfully or (a tool)
\* passed its check.
C5_DependenciesInstalledFirst ==
    \A i \in CallIdx :
        calls[i].op = "initialize" =>
            \A d \in DepsOf(calls[i].kind, calls[i].unit) :
                \E j \in 1..(i - 1) :
                    \/ calls[j] = Call(calls[i].kind, "initialize", d, "True")
                    \/ calls[j] = Call(calls[i].kind, "check", d, "True")

\* C6: with fail_early, once the initialize of a unit of layer k has failed,
\* no unit of a later layer is checked or initialized in that install call;
\* the failed unit is in the reported list and is never destroyed, and up()
\* returns false.
C6_FailEarlyStopsLaterLayers ==
    fail_early =>
        \A i \in CallIdx :
            (calls[i].op = "initialize" /\ calls[i].result = "False") =>
                /\ \A j \in CallIdx :
                      calls[j].kind = calls[i].kind =>
                          LayerIndex(calls[j].kind, calls[j].unit)
                              <= LayerIndex(calls[i].kind, calls[i].unit)
                /\ calls[i].unit \in Range(FailedOf(calls[i].kind))
                /\ calls[i].unit \notin UnitsCalled(calls[i].kind, "destroy")
                /\ pc = "up_returned" => up_result = "False"

C6_Witness ==
    /\ entry = "up" /\ pc = "up_returned" /\ fail_early /\ teardown_on_failure
    /\ modules = <<"a", "b">>
    /\ module_deps["b"] = ListDeps({"a"})
    /\ failed_modules = <<"a">>
    /\ UnitsCalled("module", "initialize") = {"a"}
    /\ UnitsCalled("module", "destroy") = {}
    /\ up_result = "False"

\* C7: the first destroy that returns failure during rollback ends the
\* process with exit status 1 at once: no call follows it, neither install
\* call nor up() returns a value, and install_modules is not run after a
\* fatal tool rollback.
C7_DestroyFailureIsFatal ==
    \A i \in CallIdx :
        (calls[i].op = "destroy" /\ calls[i].result = "False") =>
            /\ i = Len(calls)
            /\ pc = "exit" /\ exit_status = 1
            /\ up_result = "unset"
            /\ modules_installed = "unset"
            /\ calls[i].kind = "tool" => (tools_installed = "unset" /\ ~ModulesEntered)

C7_Witness ==
    /\ pc = "exit" /\ exit_status = 1
    /\ Len(successful_modules) = 2
    /\ destroyed_modules = <<>>
    /\ calls # <<>>
    /\ calls[Len(calls)].op = "destroy" /\ calls[Len(calls)].result = "False"
    /\ UnitsCalled("module", "destroy") # Range(successful_modules)

\* C8: an error raised while a unit is checked or initialized is recorded as
\* the failure of that unit and never leaves install_tools / install_modules.
C8_ErrorsStayInsideInstall ==
    \A i \in CallIdx :
        (calls[i].op \in {"check", "initialize"} /\ calls[i].result = "raise") =>
            /\ pc # "raised"
            /\ calls[i].unit \in Range(FailedOf(calls[i].kind))

\* C9: unless a fatal rollback ended the process, up() runs install_tools and
\* then install_modules, and returns true exactly when both returned true.
C9_UpRunsBoth ==
    entry = "up" =>
        /\ pc \in {"raised", "up_returned"} => (tools_installed # "unset" /\ ModulesEntered)
        /\ \A i, j \in CallIdx : (calls[i].kind = "module" /\ calls[j].kind = "tool") => j < i
        /\ pc = "up_returned" =>
              (up_result = "True" <=> (tools_installed = "True" /\ modules_installed = "True"))

\* C10: check is called at most once on a tool and exactly once on every tool
\* of a walk that ran to its end; initialize is called on a tool exactly when
\* its check, the call just before, returned false; a tool whose check
\* succeeded is in neither list; and when every check succeeded install_tools
\* returns true and no initialize or destroy was called.
C10_CheckGatesInitialize ==
    /\ \A i, j \in CallIdx :
          (calls[i].op = "check" /\ calls[j].op = "check" /\ calls[i].unit = calls[j].unit)
              => i = j
    /\ \A i \in CallIdx :
          (calls[i].kind = "tool" /\ calls[i].op = "initialize") =>
              (i > 1 /\ calls[i - 1] = Call("tool", "check", calls[i].unit, "False"))
    /\ \A i \in CallIdx :
          (calls[i].op = "check" /\ calls[i].result = "False") =>
              (i < Len(calls) /\ calls[i + 1].op = "initialize"
                 /\ calls[i + 1].unit = calls[i].unit /\ calls[i + 1].kind = "tool")
    /\ \A u \in UnitsWith("tool", "check", "True") :
          /\ u \notin Range(failed_tools) \cup Range(successful_tools)
          /\ u \notin UnitsCalled("tool", "initialize")
    /\ tools_installed = "True" => UnitsCalled("tool", "check") = Range(tools)
    /\ (tools_installed # "unset" /\ tools # <<>>
          /\ UnitsWith("tool", "check", "True") = Range(tools))
         => /\ tools_installed = "True"
            /\ UnitsCalled("tool", "initialize") = {}
            /\ UnitsCalled("tool", "destroy") = {}

C10_Witness ==
    /\ tools_installed = "True"
    /\ Len(tools) = 2
    /\ UnitsWith("tool", "check", "True") # {}
    /\ UnitsWith("tool", "initialize", "True") # {}
    /\ UnitsCalled("tool", "check") = Range(tools)

ReturnedOf(k) == IF k = "tool" THEN tools_installed ELSE modules_installed
UnitsOf(k) == IF k = "tool" THEN tools ELSE modules
NoCallOn(k) == \A i \in CallIdx : calls[i].kind # k

C12_EmptyCollectionReturnsFalse ==
    /\ (tools = <<>> /\ entry \in {"up", "install_tools"}) =>
          /\ pc \notin {"tools_walk", "tools_report", "tools_rollback"}
          /\ pc # "start" => tools_installed = "False"
          /\ NoCallOn("tool")
    /\ modules = <<>> =>
          /\ pc \notin {"modules_walk", "modules_report", "modules_rollback"}
          /\ pc \in {"modules_returned", "up_returned"} => modules_installed = "False"
          /\ NoCallOn("module")

C12_Witness ==
    /\ entry = "up" /\ pc = "up_returned"
    /\ tools = <<>> /\ modules = <<>>
    /\ tools_installed = "False" /\ modules_installed = "False"
    /\ calls = <<>>

C14_AltSubstitution ==
    \A i \in CallIdx :
        calls[i] = Call("tool", "initialize", calls[i].unit, "False") =>
            \A B \in Range(tools) \ {calls[i].unit} :
                /\ tools_installed # "unset" =>
                      \E j \in CallIdx : j > i /\ calls[j].kind = "tool"
                                            /\ calls[j].op = "check" /\ calls[j].unit = B
                /\ (\E j \in CallIdx : j > i /\ calls[j] = Call("tool", "initialize", B, "True"))
                      => /\ calls[i].unit \notin Range(failed_tools)
                         /\ tools_installed # "False"

\* ---- create_dependency_layers, further claims (SpecLayers)
\* C15: layer 0 of the layering holds exactly the units without a dependency:
\* those whose dependencies are absent and those whose dependency list is empty.
C15_LayerZeroIsNoDependency ==
    lpc = "returned" =>
        Range(dependency_layers[1]) = {n \in Range(items) : LDeps(n) = {}}

\* C16: in a returned layering every unit of a layer k > 0 has all of its
\* dependencies in the layers before k and at least one of them in layer k-1.
C16_LayerJustAfterADependency ==
    lpc = "returned" =>
        \A k \in 2..Len(dependency_layers) : \A n \in Range(dependency_layers[k]) :
            /\ \A d \in LDeps(n) : \E j \in 1..(k - 1) : InLayer(d, j)
            /\ \E d \in LDeps(n) : InLayer(d, k - 1)

ItemIndex(n) == CHOOSE i \in 1..Len(items) : items[i] = n

\* C17: within every layer of a returned layering, layer 0 and the later
\* ones, the names stand in the relative order of their units in the input.
C17_FirstSeenOrderInLayers ==
    lpc = "returned" =>
        \A k \in 1..Len(dependency_layers) :
            \A i, j \in 1..Len(dependency_layers[k]) :
                i < j => ItemIndex(dependency_layers[k][i]) < ItemIndex(dependency_layers[k][j])

\* ---- script resolution and construction (SpecScripts)
\* the key of the sub-table of the host
CurrentKey == IF _os = "windows" THEN "windows" ELSE IF _os = "darwin" THEN "mac" ELSE "linux"
DefinedForHost(role) ==
    scripts_dict.sub[CurrentKey].present /\ role \in scripts_dict.sub[CurrentKey].roles
DefinedEverywhere(role) ==
    \/ role \in scripts_dict.top
    \/ \A p \in PlatformKeys : scripts_dict.sub[p].present /\ role \in scripts_dict.sub[p].roles
ResolutionDone == spc = "done" /\ script_op \in {"util.get_script", "Tool.get_script"}
ConstructionDone == spc = "done" /\ script_op \in {"Module.__init__", "Tool.__init__"}

\* C18: util.get_script returns the entry of the sub-table of the host when
\* that sub-table exists and defines the role, and otherwise the top-level
\* entry; the sub-tables of the other platforms have no part in the result.
C18_PlatformPrecedence ==
    (spc = "done" /\ script_op = "util.get_script") =>
        /\ DefinedForHost(script) => outcome = Returned(ScriptAt(CurrentKey, script))
        /\ (~DefinedForHost(script) /\ script \in scripts_dict.top)
              => outcome = Returned(ScriptAt("top", script))

C18_Witness ==
    /\ spc = "done" /\ script_op = "util.get_script"
    /\ _os = "windows" /\ script = "init"
    /\ "init" \in scripts_dict.top
    /\ ~scripts_dict.sub["windows"].present
    /\ "init" \in scripts_dict.sub["linux"].roles
    /\ outcome = Returned(ScriptAt("top", "init"))

\* C19: when neither the top level nor the sub-table of the host defines the
\* role, resolution by util.get_script and by Tool.get_script raises an error
\* that names the unit and the role, and returns no absent script.
C19_MissingScriptIsAnError ==
    (ResolutionDone /\ script \notin scripts_dict.top /\ ~DefinedForHost(script)) =>
        /\ outcome.raised # "none"
        /\ outcome.unit = UnitName /\ outcome.role = script
        /\ outcome # Returned(None)

\* C20: a Module or a Tool is constructed only when its install and its
\* uninstall role (init and destroy for a module) are each defined at the top
\* level or in all three platform sub-tables.
C20_ConstructionNeedsEveryPlatform ==
    (ConstructionDone /\ outcome.raised = "none") =>
        /\ unit_kind = "module" => (DefinedEverywhere("init") /\ DefinedEverywhere("destroy"))
        /\ unit_kind = "tool" => (DefinedEverywhere("install") /\ DefinedEverywhere("uninstall"))

\* ---- Tool construction and Tool.check (SpecScripts)
ResolvesOnHost(role) == role \in scripts_dict.top \/ DefinedForHost(role)

\* C21: constructing a Tool whose table does not resolve the install role or
\* does not resolve the uninstall role (an empty table included) fails with a
\* TypeError and yields no Tool.
C21_ToolNeedsInstallAndUninstall ==
    (spc = "done" /\ script_op = "Tool.__init__"
       /\ ~(ResolvesOnHost("install") /\ ResolvesOnHost("uninstall")))
        => outcome.raised = "TypeError"

\* C22: a Tool whose table resolves no check role is not constructed, and
\* check() on a constructed Tool never raises: it returns a boolean.
C22_CheckRoleRequired ==
    /\ (spc = "done" /\ script_op = "Tool.__init__" /\ ~ResolvesOnHost("check"))
          => outcome.raised # "none"
    /\ (spc = "done" /\ script_op = "Tool.check")
          => (outcome.raised = "none"
                /\ outcome.value \in {ScriptAt("bool", "True"), ScriptAt("bool", "False")})

\* ---- replace_env (SpecReplaceEnv)
\* the string in which each placeholder of a set variable stands replaced by
\* the value of the variable and everything else stands as written
RECURSIVE Substituted(_, _)
Substituted(str, env) ==
    IF str = <<>> THEN <<>>
    ELSE LET piece == Head(str)
         IN (IF piece # PlainText /\ piece[2] \in DOMAIN env THEN env[piece[2]] ELSE <<piece>>)
                \o Substituted(Tail(str), env)

\* C23: replace_env replaces every placeholder whose name is set by the value
\* of that variable and leaves the placeholders of unset names and all other
\* text exactly as written.
C23_ReplaceEnvSubstitutes ==
    epc = "done" => replaced = Substituted(string, environ)

\* ---- is_potentially_sensitive_key_value (SpecSensitive)
Uppercased(s) == [i \in DOMAIN s |-> ToUpper(s[i])]
ContainsIgnoringCase(name, word) ==
    \E i \in 1..(Len(name) - Len(word) + 1) :
        Uppercased(SubSeq(name, i, i + Len(word) - 1)) = word
SensitiveWords ==
    {<<"A", "P", "I", "_", "K", "E", "Y">>, <<"T", "O", "K", "E", "N">>,
     <<"P", "A", "S", "S", "W", "O", "R", "D">>, <<"S", "E", "C", "R", "E", "T">>,
     <<"P", "R", "I", "V", "A", "T", "E", "_", "K", "E", "Y">>,
     <<"A", "C", "C", "E", "S", "S", "_", "K", "E", "Y">>}
NamedSensitive(name) == \E w \in SensitiveWords : ContainsIgnoringCase(name, w)
\* fewer than twelve different characters: the entropy is at most log2(11),
\* below 3.5 bits
LowEntropy(v) == Cardinality({v[i] : i \in DOMAIN v}) < 12

\* C28: a variable whose name contains, in any case, one of API_KEY, TOKEN,
\* PASSWORD, SECRET, PRIVATE_KEY, ACCESS_KEY is classified sensitive whatever
\* its value; a variable whose name contains none of them and whose value has
\* low entropy is classified not sensitive.
C28_SensitiveByNameOrEntropy ==
    kpc = "done" =>
        /\ NamedSensitive(env_key) => sensitive = TRUE
        /\ (~NamedSensitive(env_key) /\ LowEntropy(env_value)) => sensitive = FALSE

\* the name my_ + access_key, in lower case, with the value 1
C28_Witness ==
    /\ kpc = "done"
    /\ env_key = <<"M", "Y", "_", "a", "c", "c", "e", "s", "s", "_", "k", "e", "y">>
    /\ env_value = <<"1">>
    /\ sensitive = TRUE

\* COUNT = 1 is not sensitive
C28_WitnessCount ==
    /\ kpc = "done"
    /\ env_key = <<"C", "O", "U", "N", "T">>
    /\ env_value = <<"1">>
    /\ sensitive = FALSE

\* ---- the environment dump (SpecEnvDump)
DumpDone == epc = "done" /\ env_dump_mode # "none"
Written(name) == \E line \in dump_file : Len(line) = 2 /\ line[1] = name

\* C29: of the captured variables, one classified sensitive is written to the
\* dump target only if the user answered y for it, every one classified not
\* sensitive is written, and the two maps of get_captured_vars are disjoint
\* and together hold exactly the captured variables.
C29_SensitiveNeedApproval ==
    DumpDone =>
        /\ \A k \in DOMAIN captured.potentially_sensitive :
               Written(k) => answers[k] \in {"y", "Y"}
        /\ \A k \in DOMAIN captured.not_potentially_sensitive :
               <<k, final_vars[k]>> \in dump_file
        /\ DOMAIN captured.potentially_sensitive \cap DOMAIN captured.not_potentially_sensitive = {}
        /\ \A k \in DOMAIN final_vars :
               \/ k \in DOMAIN captured.potentially_sensitive
                    /\ captured.potentially_sensitive[k] = final_vars[k]
               \/ k \in DOMAIN captured.not_potentially_sensitive
                    /\ captured.not_potentially_sensitive[k] = final_vars[k]
        /\ DOMAIN captured.potentially_sensitive \cup DOMAIN captured.not_potentially_sensitive
               = DOMAIN final_vars

\* API_KEY refused and left out, COUNT with a high-entropy value approved and
\* written, PATH = 1 written without a question
C29_Witness ==
    /\ DumpDone
    /\ DOMAIN answers = {<<"A", "P", "I", "_", "K", "E", "Y">>, <<"C", "O", "U", "N", "T">>}
    /\ answers[<<"A", "P", "I", "_", "K", "E", "Y">>] = "n"
    /\ answers[<<"C", "O", "U", "N", "T">>] = "y"
    /\ ~Written(<<"A", "P", "I", "_", "K", "E", "Y">>)
    /\ Written(<<"C", "O", "U", "N", "T">>)
    /\ <<<<"P", "A", "T", "H">>, <<"1">>>> \in dump_file

\* C30: capture_final_env returns exactly the variables whose names were not
\* in the environment when the manager was constructed, with their current
\* values; a variable that was there at construction is never captured, even
\* if its value changed.
C30_CaptureIsTheNewNames ==
    DumpDone =>
        /\ DOMAIN final_vars = DOMAIN environ \ DOMAIN initial_vars
        /\ \A k \in DOMAIN final_vars : final_vars[k] = environ[k]

\* PATH was there and changed its value, COUNT is new
C30_Witness ==
    /\ DumpDone
    /\ <<"P", "A", "T", "H">> \in DOMAIN initial_vars
    /\ <<"P", "A", "T", "H">> \in DOMAIN environ
    /\ environ[<<"P", "A", "T", "H">>] # initial_vars[<<"P", "A", "T", "H">>]
    /\ DOMAIN final_vars = {<<"C", "O", "U", "N", "T">>}

\* ---- child processes (SpecProc)
ProcDone(op) == ppc = "done" /\ proc_op = op
EventIndex(e) == CHOOSE i \in DOMAIN events : events[i] = e

\* C24: run_script_with_env_substitution runs the script through the platform
\* shell, the whole string as one argument, when the script has a newline or
\* its first token is not found on PATH, and as the split argument vector
\* otherwise; in both cases it returns the captured output with the exit code.
C24_ShellOrArgvWithCapturedOutput ==
    (ProcDone("run_script_with_env_substitution") /\ host.first # "none") =>
        /\ Len(events) = 1
        /\ IF host.multiline \/ host.first = "missing"
           THEN /\ events[1].how = "shell"
                /\ events[1].args = "whole script"
                /\ events[1].program \in {"sh", "pwsh", "powershell"}
           ELSE /\ events[1].how = "argv"
                /\ events[1].args = "split"
        /\ proc_result.raised = "none"
        /\ proc_result.value = <<"out", host.code>>

\* C25: in monitored_subprocess an interrupt while the output is read makes
\* terminate be sent to the child, then the child be waited for, then an abort
\* go to the caller with no completed result; on every path the child has
\* been waited for when monitored_subprocess is left.
C25_InterruptTerminatesWaitsAborts ==
    ProcDone("monitored_subprocess") =>
        /\ "wait" \in Range(events)
        /\ child = "reaped"
        /\ "KeyboardInterrupt" \in Range(events) =>
              /\ "terminate" \in Range(events)
              /\ EventIndex("KeyboardInterrupt") < EventIndex("terminate")
              /\ EventIndex("terminate") < EventIndex("wait")
              /\ proc_result.raised = "Abort"
              /\ proc_result.value = None
        /\ "KeyboardInterrupt" \notin Range(events) =>
              /\ "terminate" \notin Range(events)
              /\ proc_result.raised = "none"

\* interrupted after the first of two lines
C25_Witness ==
    /\ ProcDone("monitored_subprocess")
    /\ host.lines = 2
    /\ events = <<"popen", "line", "KeyboardInterrupt", "terminate", "wait">>
    /\ proc_result.raised = "Abort"

\* C26: GitModule.initialize fails with an error before it starts any process
\* when git is not found; otherwise it runs the clone first, runs the init
\* role exactly when the clone exited 0, and returns true exactly when both
\* exited 0 (false, without init, after a failed clone).
C26_GitCloneThenInit ==
    ProcDone("GitModule.initialize") =>
        IF ~host.git
        THEN proc_result.raised # "none" /\ events = <<>>
        ELSE /\ events # <<>> /\ events[1] = "clone"
             /\ "init" \in Range(events) <=> host.clone = 0
             /\ proc_result.raised = "none"
             /\ proc_result.value = (host.clone = 0 /\ host.init = 0)

\* C27: ScriptModule.initialize runs the source script first, runs the init
\* role exactly when the source script exited 0, and returns true exactly
\* when both exited 0 (false, without init, after a failed source script).
C27_SourceThenInit ==
    ProcDone("ScriptModule.initialize") =>
        /\ events # <<>> /\ events[1] = "source"
        /\ "init" \in Range(events) <=> host.source = 0
        /\ proc_result.raised = "none"
        /\ proc_result.value = (host.source = 0 /\ host.init = 0)

\* ---- replace_env applied to its own result (SpecReplaceEnv)
PlaceholdersOf(str) ==
    {str[i][2] : i \in {j \in DOMAIN str : str[j] # PlainText}}
\* no value of a set variable holds the placeholder of a set variable
ValuesClosed ==
    \A n \in DOMAIN environ : PlaceholdersOf(environ[n]) \cap DOMAIN environ = {}

UnitIndex(k, u) == CHOOSE i \in 1..Len(UnitsOf(k)) : UnitsOf(k)[i] = u
FailedInitialize(i) == calls[i].op = "initialize" /\ calls[i].result = "False"

\* C32: with fail_early, after the first failed initialize of an install call
\* no check and no initialize is called on any other unit in that call, the
\* remaining units of the same layer included.
C32_FailEarlyStopsAtOnce ==
    fail_early =>
        \A i \in CallIdx : FailedInitialize(i) =>
            \A j \in CallIdx :
                (j > i /\ calls[j].kind = calls[i].kind)
                    => calls[j].op \notin {"check", "initialize"}

\* C35: rollback calls destroy on the installed units in the order in which
\* the units stand in the collection, not in the reverse order of their
\* installation.
C35_RollbackInCollectionOrder ==
    \A i \in CallIdx : \A j \in CallIdx :
        (i < j /\ calls[i].op = "destroy" /\ calls[j].op = "destroy"
               /\ calls[i].kind = calls[j].kind)
            => UnitIndex(calls[i].kind, calls[i].unit) < UnitIndex(calls[j].kind, calls[j].unit)

\* b depends on a, both were installed, c failed: a has been destroyed and b,
\* which depends on it, is still installed
C35_Witness ==
    /\ pc = "modules_rollback"
    /\ modules = <<"a", "b", "c">>
    /\ module_deps["b"] = ListDeps({"a"})
    /\ successful_modules = <<"a", "b">>
    /\ failed_modules = <<"c">>
    /\ destroyed_modules = <<"a">>
    /\ calls[Len(calls)] = Call("module", "destroy", "a", "True")

OptionKeys == {options[i] : i \in DOMAIN options}
SetReturned == opt_op = "set_init_options" /\ opc = "returned"
\* what the claim promises once set_init_options has returned
OptionsAreSet ==
    /\ \A k \in OptionKeys :
          /\ k.name \in DOMAIN os_environ
          /\ os_environ[k.name] = k.value.repr
          /\ k.module \in DOMAIN init_options
          /\ ~init_options[k.module].none
          /\ k.name \in DOMAIN init_options[k.module].values
          /\ init_options[k.module].values[k.name] = k.value
    /\ \A m \in DOMAIN init_options : ~init_options[m].none =>
          \A n \in DOMAIN init_options[m].values :
              (\A k \in OptionKeys : <<k.module, k.name>> # <<m, n>>)
                  => init_options[m].values[n] = PyNone
\* no two keys name the same option with values of different string form
KeysAgree ==
    \A k \in OptionKeys : \A l \in OptionKeys :
        k.name = l.name => k.value.repr = l.value.repr

\* C31 as stated: after set_init_options(options) has returned, for every key
\* the environment variable named by the option holds the string form of the
\* value and the InitOption of that module has the value; the options that
\* are not named keep the value None.
C31_OptionsSetAndExported == SetReturned => OptionsAreSet

\* C31, amended: the same, for dictionaries in which no two keys name the same
\* option with values of different string form.
C31_OptionsSetAndExportedWhenKeysAgree == (SetReturned /\ KeysAgree) => OptionsAreSet

\* X of a is set to True and Y of b to 1; X of b is not named and stays None
C31_Witness ==
    /\ SetReturned /\ KeysAgree
    /\ options = <<[module |-> "a", name |-> "X", value |-> PyValue("bool", "True")],
                   [module |-> "b", name |-> "Y", value |-> PyValue("int", "1")]>>
    /\ os_environ = [n \in {"X", "Y"} |-> IF n = "X" THEN "True" ELSE "1"]
    /\ init_options["a"].values["X"] = PyValue("bool", "True")
    /\ init_options["b"].values["Y"] = PyValue("int", "1")
    /\ DOMAIN init_options["b"].values = {"X", "Y"}
    /\ init_options["b"].values["X"] = PyNone

\* the responses that are valid for a default of the type
ValidResponses(type) ==
    IF type = "bool" THEN {"y", "Yes", "No"}
    ELSE IF type = "int" THEN {"1"}
    ELSE IF type = "float" THEN {"1", "1.5"}
    ELSE {"y", "Yes", "No", "maybe", "1", "1.5"}
Decisive(i) == stream[i] = "" \/ stream[i] \in ValidResponses(option_default.type)
PromptCase == opt_op = "prompt_init_option" /\ \E i \in DOMAIN stream : Decisive(i)
FirstDecisive ==
    IF PromptCase
    THEN CHOOSE i \in DOMAIN stream : Decisive(i) /\ \A j \in 1..(i - 1) : ~Decisive(j)
    ELSE 0
ExpectedResponse ==
    IF ~PromptCase THEN PyNone
    ELSE IF stream[FirstDecisive] = "" THEN option_default
    ELSE IF option_default.type = "bool" THEN string_to_bool(stream[FirstDecisive])
    ELSE Converted(option_default.type, stream[FirstDecisive])

\* C33: for every type of default and every sequence of responses that holds
\* a valid or an empty response, prompt_init_option eventually returns; an
\* invalid non-empty response makes it read the next one, an empty one gives
\* the default, and the value returned is the first valid response converted
\* to the type of the default.
C33_PromptReturnsFirstValid ==
    [](PromptCase => <>(opc = "returned" /\ consumed = FirstDecisive
                          /\ response = ExpectedResponse))

\* ---- a Starter whose layers do not name every unit (SpecDirect)
LayerNames(kind) ==
    Range(Flatten(IF kind = "tool" THEN tool_dependencies ELSE module_dependencies))
CallsOf(kind) == SelectSeq(calls, LAMBDA c : c.kind = kind)
NoToolInLayers == tools # <<>> /\ Range(tools) \cap LayerNames("tool") = {}
NoModuleInLayers == modules # <<>> /\ Range(modules) \cap LayerNames("module") = {}

\* C34: a unit whose name is in no layer is never checked, initialized or
\* destroyed, and when the collection is not empty and none of its names is
\* in a layer, install_tools (install_modules) returns True without a call on
\* a unit.
C34_UnlayeredUnitsAreLeftAlone ==
    /\ \A i \in DOMAIN calls : calls[i].unit \in LayerNames(calls[i].kind)
    /\ (NoToolInLayers /\ tools_installed # "unset")
          => (tools_installed = "True" /\ CallsOf("tool") = <<>>)
    /\ (NoModuleInLayers /\ modules_installed # "unset")
          => (modules_installed = "True" /\ CallsOf("module") = <<>>)

\* up(): tool a is in no layer (the one layer names z only) and install_tools
\* gave True; of the modules a and b only b is in a layer, b was checked
\* and initialized, a was not touched, and up() has returned
C34_Witness ==
    /\ entry = "up" /\ up_result # "unset"
    /\ tools = <<"a">> /\ tool_dependencies = <<<<"z">>>>
    /\ tools_installed = "True"
    /\ modules = <<"a", "b">> /\ module_dependencies = <<<<"b">>>>
    /\ CallsOf("tool") = <<>>
    /\ Len(CallsOf("module")) > 0
    /\ \A i \in DOMAIN calls : calls[i].unit = "b"

\* ---- Module.run on an accepted Module (SpecScripts)
\* C37: a Module that the constructor accepted can run its init and destroy
\* roles: run(role) resolves a script for the platform and raises no
\* missing-script error, also when the role is defined in a platform
\* sub-table only.
C37_AcceptedModuleRuns ==
    (spc = "ran" /\ script_op = "Module.run")
        => (outcome.raised = "none" /\ outcome.value # None)

====
